---- MODULE Spec2Model ----
(***************************************************************************)
(* Symmetric cipher contexts of pyflocker (cryptodome backend).            *)
(*                                                                         *)
(*   Spec      one cipher context object, driven by an arbitrary caller:   *)
(*             NonAEADCipherTemplate, AEADCipherTemplate (symmetric.py)    *)
(*             and AEADCipherWrapper (_symmetric.py).  Every public call   *)
(*             is one step.                                                *)
(*   SpecHmac  the update closures that CipherWrapper._get_update builds   *)
(*             when an authenticator (HMAC) is present, one statement of   *)
(*             the closure per step.                                       *)
(*                                                                         *)
(* The wrapped primitive (`_cipher`, a Cryptodome cipher object) and the   *)
(* MAC (`_auth`) are external.  They are modelled by what the wrappers can *)
(* observe of them: a position dependent stream transform, an associated   *)
(* data channel, and a tag that is an injective function of everything     *)
(* the primitive was fed.                                                  *)
(***************************************************************************)
EXTENDS Integers, Sequences, FiniteSets, TLC

\* ------------------------------------------------------------------ bounds

\* Number of public calls made on one context.
MaxCalls == 3

\* Total number of payload bytes passed through one context.
MaxLen == 2

\* Total number of associated-data bytes given to one context.
MaxAd == 1

\* Length of the source a file cipher reads.
MaxSrc == 3

\* The blocksize argument of FileCipherMixin.update_into.
MaxBlock == 2

\* Hash objects alive at once.
MaxObjs == 2

\* ------------------------------------------------------------------- data

\* The byte alphabet, cut down to three symbols.
Byte == {0, 1, 2}

BytesUpTo(n) == UNION {[1..k -> Byte] : k \in 0..n}

\* Keystream symbol at stream position i: depends on the position and is
\* never the neutral element, so ciphertext differs from plaintext and the
\* transform of a chunk depends on where the chunk starts.
Keystream(i) == 1 + (i % 2)

\* _cipher.encrypt(data) with `pos` bytes already processed.
Encrypt(data, pos) ==
  [i \in 1..Len(data) |-> (data[i] + Keystream(pos + i)) % Cardinality(Byte)]

\* _cipher.decrypt(data) with `pos` bytes already processed.
Decrypt(data, pos) ==
  [i \in 1..Len(data) |->
      (data[i] + Cardinality(Byte) - Keystream(pos + i)) % Cardinality(Byte)]

\* tag=None
NoTag == <<>>

\* The tag the primitive computes over associated data `ad` and ciphertext
\* `ct`: collision free, so a change of either changes the tag.
PrimTag(ad, ct) == <<ad, ct>>

\* The byte strings one edit away from s (one symbol replaced, the last
\* symbol dropped, or one symbol appended), and s itself.
Near(s) ==
  {[s EXCEPT ![i] = b] : i \in 1..Len(s), b \in Byte}
    \cup {s \o <<b>> : b \in Byte}
    \cup {SubSeq(s, 1, Len(s) - 1), s}

Templates == {"NonAEADCipherTemplate", "AEADCipherTemplate"}

AEADKinds == {"AEADCipherTemplate", "AEADCipherWrapper"}

\* ------------------------------------------------------------------ state

VARIABLES
  kind,         \* class of the context object
  encrypting,   \* _encrypting (templates) / _locking (wrappers)
  update_func,  \* templates: _update_func, "bound" or "None"; HMAC
                \* composition: the lifecycle flag, Active or Finalized
  updated,      \* _updated
  primStrict,   \* whether the primitive keeps to Cryptodome's own call
                \* order (no associated data after payload, no digest when
                \* decrypting) or accepts any order
  cipher_ad,    \* associated data the primitive (HMAC composition: the
                \* MAC) has been fed
  cipher_data,  \* ciphertext side of the stream the primitive processed
  n_crpup,      \* calls of the primitive's encrypt/decrypt
  n_adup,       \* calls of the primitive's update (associated data)
  n_verify,     \* calls of the primitive's verify
  n_digest,     \* calls of the primitive's digest
  n_update,     \* update and update_into calls made on the context
  last,         \* the last public call: name, outcome, returned value
  ncalls,       \* number of public calls made
  fin_ok,       \* some finalize call has returned normally
  pc,           \* SpecHmac: the statement the running closure is at
  frame,        \* SpecHmac: the running closure's locals
  auth_data,    \* SpecHmac: the payload bytes the MAC has been fed
  len_ct,       \* SpecHmac: _len_ct
  n_hashup,     \* SpecHmac: calls of the MAC's update
  ret_cat,      \* SpecHmac: the values update returned, concatenated
  in_cat,       \* SpecHmac: the data update was given, concatenated
  stage,        \* "one": a context on its own; "enc", "dec": the encrypting
                \* and then the decrypting context of a matching pair
  wire,         \* what the encrypting context of a pair handed over
  drv,          \* FileCipherMixin.update_into: its locals, the source and
                \* the sink
  hash,         \* SpecHash: the Hash objects and the primitives they hold
  kdf,          \* SpecKdf: derive_key: its arguments, locals and outcome
  asym          \* SpecAsym: an RSA or ECC context and its last call

vars == <<kind, encrypting, update_func, updated, primStrict, cipher_ad,
          cipher_data, n_crpup, n_adup, n_verify, n_digest, n_update, last,
          ncalls, fin_ok, pc, frame, auth_data, len_ct, n_hashup, ret_cat,
          in_cat, stage, wire, drv, hash, kdf, asym>>

\* The objects that are not cipher contexts.
others == <<hash, kdf, asym>>

\* What is fixed when a context is constructed.
built == <<kind, encrypting, primStrict, others>>

\* What no method of a context but FileCipherMixin.update_into assigns.
fixed == <<built, stage, wire, drv>>

hmac == <<pc, frame, auth_data, len_ct, n_hashup, ret_cat, in_cat>>

\* What a call leaves behind for the caller to see.
\*   res: "ok" or the exception raised
\*   ret: "None", "bytes" (value in out) or "tag" (value in tag)
\*   arg: the data argument
\*   out: bytes returned, or written into the out buffer
\*   tag: tag passed to finalize, or returned by calculate_tag
Outcome(op, res, ret, arg, out, tag) ==
  [op |-> op, res |-> res, ret |-> ret, arg |-> arg, out |-> out,
   tag |-> tag]

\* The call raised exception e.
Raise(op, e, arg, tag) == Outcome(op, e, "None", arg, <<>>, tag)

\* The call returned None.
Return(op, arg, tag) == Outcome(op, "ok", "None", arg, <<>>, tag)

\* The locals of a closure that is not running.
\*   data, ctxt: the argument and the local of update
\*   data, out, inplace: the buffers of update_into, and whether they are
\*   one buffer
NoFrame == [data |-> <<>>, ctxt |-> <<>>, out |-> <<>>, inplace |-> FALSE]

\* No update_into of a file cipher is running.
\*   pc: the statement to run next, "done", "raised"; exc: what was raised
\*   src, pos: the source and how much of it was read; raw: its readinto
\*   may return fewer bytes than asked for before the end
\*   arr: the bytearray; view: the length of `buf`; i: the loop variable
\*   nread, nwrite: the reads that returned bytes, the writes
\*   calls, ret, out: FileCipherMixin.update: the calls made, and what the
\*   last one returned ("None", or "bytes" and the bytes)
NoDrive ==
  [pc |-> "none", exc |-> "", src |-> <<>>, pos |-> 0, raw |-> FALSE,
   sink |-> <<>>, blocksize |-> 0, tag |-> NoTag, arr |-> <<>>, view |-> 0,
   i |-> 0, nread |-> 0, nwrite |-> 0, calls |-> 0, ret |-> "", out |-> <<>>]

\* Nothing handed over.
NoWire == [ad |-> <<>>, ct |-> <<>>, plain |-> <<>>, tag |-> NoTag]

\* --------------------------------------------------------- the primitive

\* The payload chunks a caller may still pass within the bounds.
Chunks == BytesUpTo(MaxLen - Len(cipher_data))

\* The associated data a caller may still pass within the bounds.
AdChunks == BytesUpTo(MaxAd - Len(cipher_ad))

\* crpup(data): what the transform returns.
CrpOut(data) ==
  IF encrypting THEN Encrypt(data, Len(cipher_data))
                ELSE Decrypt(data, Len(cipher_data))

\* crpup(data): the ciphertext the primitive has seen afterwards.
CrpStream(data) ==
  cipher_data \o (IF encrypting THEN Encrypt(data, Len(cipher_data)) ELSE data)

\* _cipher.update(data) raises TypeError: a strict primitive refuses
\* associated data after encrypt/decrypt was called.
PrimRefusesAd == primStrict /\ n_crpup > 0

\* _cipher.digest() raises TypeError: a strict primitive gives no digest
\* when decrypting.
PrimRefusesDigest == primStrict /\ ~encrypting

\* The tags a caller supplies to finalize: the tag of what the primitive
\* has processed, and the tags of every associated data or ciphertext one
\* edit away from it.
Tags ==
  {PrimTag(a, cipher_data) : a \in Near(cipher_ad)}
    \cup {PrimTag(cipher_ad, c) : c \in Near(cipher_data)}

\* _cipher.verify(tag) returns normally; it raises ValueError otherwise.
PrimVerifyOk(tag) == tag = PrimTag(cipher_ad, cipher_data)

\* ------------------------------------------------------------------- Init

\* No Hash object was made.
NoHash == [objs |-> <<>>, hashers |-> <<>>, n |-> 0,
           last |-> [op |-> "none", on |-> 0, res |-> "ok", out |-> <<>>]]

\* derive_key is not running.
NoKdf == [pc |-> "none", exc |-> "", master_key |-> <<>>, dklen |-> 0,
          hashalgo |-> "", salt |-> <<>>, key |-> <<>>, hash_ |-> "",
          hkey |-> <<>>]

\* No RSA or ECC context exists.
NoAsym == [ctx |-> [cls |-> "none", is_private |-> FALSE, key |-> "none"],
           n |-> 0, used |-> 0,
           last |-> [op |-> "none", res |-> "ok", called |-> FALSE,
                     report |-> "none", same |-> TRUE, out |-> <<>>]]

\* Only a cipher context exists.
NoOthers == hash = NoHash /\ kdf = NoKdf /\ asym = NoAsym

\* The fields of a context right after construction.
Blank ==
  /\ update_func = "bound"
  /\ updated = FALSE
  /\ cipher_ad = <<>>
  /\ cipher_data = <<>>
  /\ n_crpup = 0
  /\ n_adup = 0
  /\ n_verify = 0
  /\ n_digest = 0
  /\ n_update = 0
  /\ last = Outcome("new", "ok", "None", <<>>, <<>>, NoTag)
  /\ ncalls = 0
  /\ fin_ok = FALSE
  /\ pc = "idle"
  /\ frame = NoFrame
  /\ auth_data = <<>>
  /\ len_ct = 0
  /\ n_hashup = 0
  /\ ret_cat = <<>>
  /\ in_cat = <<>>

\* A context right after construction, no call made yet.
Fresh ==
  /\ encrypting \in BOOLEAN
  /\ primStrict \in BOOLEAN
  /\ stage = "one"
  /\ wire = NoWire
  /\ NoOthers
  /\ drv = NoDrive
  /\ Blank

Init ==
  /\ kind \in Templates \cup AEADKinds
  /\ Fresh

\* The calls made on one context: a context of a pair is also finalized,
\* a file cipher is called once for every read and finalized.
CallLimit ==
  IF stage = "one" THEN MaxCalls
  ELSE IF stage \in {"enc", "dec"} THEN MaxCalls + 1
  ELSE MaxSrc + 2

\* A public call is made and ends as `o`.
Called(o) ==
  /\ ncalls < CallLimit
  /\ ncalls' = ncalls + 1
  /\ last' = o

\* self._update_func(data) / self._update_func(data, out)
RunUpdateFunc(op, ret, data) ==
  /\ cipher_data' = CrpStream(data)
  /\ n_crpup' = n_crpup + 1
  /\ Called(Outcome(op, "ok", ret, data, CrpOut(data), NoTag))

\* ------------------------------------------------- NonAEADCipherTemplate

NonAEADCipherTemplate_update(data) ==
  /\ kind = "NonAEADCipherTemplate"
  /\ n_update' = n_update + 1
  /\ IF update_func = "None"
       THEN /\ Called(Raise("update", "AlreadyFinalized", data, NoTag))
            /\ UNCHANGED <<cipher_data, n_crpup>>
       ELSE RunUpdateFunc("update", "bytes", data)
  /\ UNCHANGED <<fixed, update_func, updated, cipher_ad, n_adup, n_verify,
                 n_digest, fin_ok, hmac>>

NonAEADCipherTemplate_update_into(data) ==
  /\ kind = "NonAEADCipherTemplate"
  /\ n_update' = n_update + 1
  /\ IF update_func = "None"
       THEN /\ Called(Raise("update_into", "AlreadyFinalized", data, NoTag))
            /\ UNCHANGED <<cipher_data, n_crpup>>
       ELSE RunUpdateFunc("update_into", "None", data)
  /\ UNCHANGED <<fixed, update_func, updated, cipher_ad, n_adup, n_verify,
                 n_digest, fin_ok, hmac>>

\* finalize, as it would be if it turned the context round.
NonAEADCipherTemplate_finalize_turn ==
  /\ kind = "NonAEADCipherTemplate"
  /\ IF update_func = "None"
       THEN /\ Called(Raise("finalize", "AlreadyFinalized", <<>>, NoTag))
            /\ UNCHANGED <<update_func, fin_ok, encrypting>>
       ELSE /\ update_func' = "None"
            /\ fin_ok' = TRUE
            /\ encrypting' = ~encrypting
            /\ Called(Return("finalize", <<>>, NoTag))
  /\ UNCHANGED <<kind, primStrict, others, stage, wire, drv, updated,
                 cipher_ad, cipher_data, n_crpup, n_adup, n_verify,
                 n_digest, n_update, hmac>>

NonAEADCipherTemplate_finalize ==
  /\ kind = "NonAEADCipherTemplate"
  /\ IF update_func = "None"
       THEN /\ Called(Raise("finalize", "AlreadyFinalized", <<>>, NoTag))
            /\ UNCHANGED <<update_func, fin_ok>>
       ELSE /\ update_func' = "None"
            /\ fin_ok' = TRUE
            /\ Called(Return("finalize", <<>>, NoTag))
  /\ UNCHANGED <<fixed, updated, cipher_ad, cipher_data, n_crpup, n_adup,
                 n_verify, n_digest, n_update, hmac>>

\* ---------------------------------------------------- AEADCipherTemplate

\* self._updated = True, as it would be if only non-empty data counted.
MarkUpdated_nonempty(data) == updated' = (updated \/ Len(data) > 0)

\* self._updated = True
MarkUpdated(data) == updated' = TRUE

\* update as it would be without the finalized check.
AEADCipherTemplate_update_unchecked(data) ==
  /\ kind = "AEADCipherTemplate"
  /\ n_update' = n_update + 1
  /\ MarkUpdated(data)
  /\ RunUpdateFunc("update", "bytes", data)
  /\ UNCHANGED <<fixed, update_func, cipher_ad, n_adup, n_verify, n_digest,
                 fin_ok, hmac>>

AEADCipherTemplate_update(data) ==
  /\ kind = "AEADCipherTemplate"
  /\ n_update' = n_update + 1
  /\ MarkUpdated(data)
  /\ IF update_func = "None"
       THEN /\ Called(Raise("update", "AlreadyFinalized", data, NoTag))
            /\ UNCHANGED <<cipher_data, n_crpup>>
       ELSE RunUpdateFunc("update", "bytes", data)
  /\ UNCHANGED <<fixed, update_func, cipher_ad, n_adup, n_verify, n_digest,
                 fin_ok, hmac>>

AEADCipherTemplate_update_into(data) ==
  /\ kind = "AEADCipherTemplate"
  /\ n_update' = n_update + 1
  /\ MarkUpdated(data)
  /\ IF update_func = "None"
       THEN /\ Called(Raise("update_into", "AlreadyFinalized", data, NoTag))
            /\ UNCHANGED <<cipher_data, n_crpup>>
       ELSE RunUpdateFunc("update_into", "None", data)
  /\ UNCHANGED <<fixed, update_func, cipher_ad, n_adup, n_verify, n_digest,
                 fin_ok, hmac>>

\* self._cipher.update(data), a TypeError of the primitive passing through.
FeedAd(data) ==
  /\ n_adup' = n_adup + 1
  /\ IF PrimRefusesAd
       THEN /\ Called(Raise("authenticate", "TypeError", data, NoTag))
            /\ UNCHANGED cipher_ad
       ELSE /\ cipher_ad' = cipher_ad \o data
            /\ Called(Return("authenticate", data, NoTag))

AEADCipherTemplate_authenticate(data) ==
  /\ kind = "AEADCipherTemplate"
  /\ IF update_func = "None"
       THEN /\ Called(Raise("authenticate", "AlreadyFinalized", data, NoTag))
            /\ UNCHANGED <<cipher_ad, n_adup>>
       ELSE IF updated
         THEN /\ Called(Raise("authenticate", "TypeError", data, NoTag))
              /\ UNCHANGED <<cipher_ad, n_adup>>
         ELSE FeedAd(data)
  /\ UNCHANGED <<fixed, update_func, updated, cipher_data, n_crpup,
                 n_verify, n_digest, n_update, fin_ok, hmac>>

\* The try block of finalize, as it would be if the primitive's ValueError
\* were let through.
TryVerify_uncaught(tag) ==
  IF encrypting
    THEN /\ fin_ok' = TRUE
         /\ Called(Return("finalize", <<>>, tag))
         /\ UNCHANGED n_verify
    ELSE /\ n_verify' = n_verify + 1
         /\ IF PrimVerifyOk(tag)
              THEN /\ fin_ok' = TRUE
                   /\ Called(Return("finalize", <<>>, tag))
              ELSE /\ Called(Raise("finalize", "ValueError", <<>>, tag))
                   /\ UNCHANGED fin_ok

\* try: if not encrypting: self._cipher.verify(tag)
\* except ValueError: raise DecryptionError
TryVerify(tag) ==
  IF encrypting
    THEN /\ fin_ok' = TRUE
         /\ Called(Return("finalize", <<>>, tag))
         /\ UNCHANGED n_verify
    ELSE /\ n_verify' = n_verify + 1
         /\ IF PrimVerifyOk(tag)
              THEN /\ fin_ok' = TRUE
                   /\ Called(Return("finalize", <<>>, tag))
              ELSE /\ Called(Raise("finalize", "DecryptionError", <<>>, tag))
                   /\ UNCHANGED fin_ok

\* self._update_func = None, as it would be if finalize forgot it.
DropUpdateFunc_forgotten == UNCHANGED update_func

\* self._update_func = None
DropUpdateFunc == update_func' = "None"

\* finalize, as it would be with self._update_func = None ahead of the
\* test for a missing tag.
AEADCipherTemplate_finalize_dropfirst(tag) ==
  /\ kind = "AEADCipherTemplate"
  /\ IF update_func = "None"
       THEN /\ Called(Raise("finalize", "AlreadyFinalized", <<>>, tag))
            /\ UNCHANGED <<update_func, n_verify, fin_ok>>
       ELSE IF ~encrypting /\ tag = NoTag
         THEN /\ DropUpdateFunc
              /\ Called(Raise("finalize", "ValueError", <<>>, tag))
              /\ UNCHANGED <<n_verify, fin_ok>>
         ELSE /\ DropUpdateFunc
              /\ TryVerify(tag)
  /\ UNCHANGED <<fixed, updated, cipher_ad, cipher_data, n_crpup, n_adup,
                 n_digest, n_update, hmac>>

\* finalize, as it would be with self._update_func = None after the try
\* block.
AEADCipherTemplate_finalize_droplast(tag) ==
  /\ kind = "AEADCipherTemplate"
  /\ IF update_func = "None"
       THEN /\ Called(Raise("finalize", "AlreadyFinalized", <<>>, tag))
            /\ UNCHANGED <<update_func, n_verify, fin_ok>>
       ELSE IF ~encrypting /\ tag = NoTag
         THEN /\ Called(Raise("finalize", "ValueError", <<>>, tag))
              /\ UNCHANGED <<update_func, n_verify, fin_ok>>
         ELSE /\ update_func' =
                   IF encrypting \/ PrimVerifyOk(tag) THEN "None"
                                                      ELSE update_func
              /\ TryVerify(tag)
  /\ UNCHANGED <<fixed, updated, cipher_ad, cipher_data, n_crpup, n_adup,
                 n_digest, n_update, hmac>>

AEADCipherTemplate_finalize(tag) ==
  /\ kind = "AEADCipherTemplate"
  /\ IF update_func = "None"
       THEN /\ Called(Raise("finalize", "AlreadyFinalized", <<>>, tag))
            /\ UNCHANGED <<update_func, n_verify, fin_ok>>
       ELSE IF ~encrypting /\ tag = NoTag
         THEN /\ Called(Raise("finalize", "ValueError", <<>>, tag))
              /\ UNCHANGED <<update_func, n_verify, fin_ok>>
         ELSE /\ DropUpdateFunc
              /\ TryVerify(tag)
  /\ UNCHANGED <<fixed, updated, cipher_ad, cipher_data, n_crpup, n_adup,
                 n_digest, n_update, hmac>>

\* return self._cipher.digest(), a TypeError of the primitive passing
\* through.
AskDigest ==
  /\ n_digest' = n_digest + 1
  /\ IF PrimRefusesDigest
       THEN Called(Raise("calculate_tag", "TypeError", <<>>, NoTag))
       ELSE Called(Outcome("calculate_tag", "ok", "tag", <<>>, <<>>,
                           PrimTag(cipher_ad, cipher_data)))

AEADCipherTemplate_calculate_tag ==
  /\ kind = "AEADCipherTemplate"
  /\ IF update_func # "None"
       THEN /\ Called(Raise("calculate_tag", "NotFinalized", <<>>, NoTag))
            /\ UNCHANGED n_digest
       ELSE AskDigest
  /\ UNCHANGED <<fixed, update_func, updated, cipher_ad, cipher_data,
                 n_crpup, n_adup, n_verify, n_update, fin_ok, hmac>>

\* ----------------------------------------------------- AEADCipherWrapper
\* No authenticator is present (_auth is None), so _get_update and
\* _get_update_into hand back the primitive's encrypt/decrypt itself and
\* update/update_into reach it without touching _updated or _len_ct.

AEADCipherWrapper_update(data) ==
  /\ kind = "AEADCipherWrapper"
  /\ n_update' = n_update + 1
  /\ RunUpdateFunc("update", "bytes", data)
  /\ UNCHANGED <<fixed, update_func, updated, cipher_ad, n_adup, n_verify,
                 n_digest, fin_ok, hmac>>

AEADCipherWrapper_update_into(data) ==
  /\ kind = "AEADCipherWrapper"
  /\ n_update' = n_update + 1
  /\ RunUpdateFunc("update_into", "None", data)
  /\ UNCHANGED <<fixed, update_func, updated, cipher_ad, n_adup, n_verify,
                 n_digest, fin_ok, hmac>>

AEADCipherWrapper_authenticate(data) ==
  /\ kind = "AEADCipherWrapper"
  /\ FeedAd(data)
  /\ UNCHANGED <<fixed, update_func, updated, cipher_data, n_crpup,
                 n_verify, n_digest, n_update, fin_ok, hmac>>

AEADCipherWrapper_finalize(tag) ==
  /\ kind = "AEADCipherWrapper"
  /\ IF ~encrypting /\ tag = NoTag
       THEN \* the TypeError passes `except ValueError`
            /\ Called(Raise("finalize", "TypeError", <<>>, tag))
            /\ UNCHANGED <<n_verify, fin_ok>>
       ELSE TryVerify(tag)
  /\ UNCHANGED <<fixed, update_func, updated, cipher_ad, cipher_data,
                 n_crpup, n_adup, n_digest, n_update, hmac>>

AEADCipherWrapper_calculate_tag ==
  /\ kind = "AEADCipherWrapper"
  /\ IF encrypting
       THEN AskDigest
       ELSE /\ Called(Return("calculate_tag", <<>>, NoTag))
            /\ UNCHANGED n_digest
  /\ UNCHANGED <<fixed, update_func, updated, cipher_ad, cipher_data,
                 n_crpup, n_adup, n_verify, n_update, fin_ok, hmac>>

\* ------------------------------------------------------------------- Spec

Next ==
  \/ \E data \in Chunks : NonAEADCipherTemplate_update(data)
  \/ \E data \in Chunks : NonAEADCipherTemplate_update_into(data)
  \/ NonAEADCipherTemplate_finalize
  \/ \E data \in Chunks : AEADCipherTemplate_update(data)
  \/ \E data \in Chunks : AEADCipherTemplate_update_into(data)
  \/ \E data \in AdChunks : AEADCipherTemplate_authenticate(data)
  \/ \E tag \in Tags \cup {NoTag} : AEADCipherTemplate_finalize(tag)
  \/ AEADCipherTemplate_calculate_tag
  \/ \E data \in Chunks : AEADCipherWrapper_update(data)
  \/ \E data \in Chunks : AEADCipherWrapper_update_into(data)
  \/ \E data \in AdChunks : AEADCipherWrapper_authenticate(data)
  \/ \E tag \in Tags \cup {NoTag} : AEADCipherWrapper_finalize(tag)
  \/ AEADCipherWrapper_calculate_tag

Spec == Init /\ [][Next]_vars

\* ------------------------------------- CipherWrapper with an authenticator
\* The closures _get_update returns when _auth is set (HMACCipherWrapper),
\* one statement per step.  pc names the line the closure is about to run.

InitHmac ==
  /\ kind = "HMACCipherWrapper"
  /\ Fresh

\* The closure is entered with `data` (encrypting) / `ctxt` (decrypting).
CipherWrapper_update_call(data) ==
  /\ pc = "idle"
  /\ ncalls < CallLimit
  /\ frame' = [NoFrame EXCEPT !.data = data]
  /\ in_cat' = in_cat \o data
  /\ n_update' = n_update + 1
  /\ pc' = IF encrypting THEN "L59" ELSE "L67"
  /\ UNCHANGED <<fixed, update_func, updated, cipher_ad, cipher_data,
                 n_crpup, n_adup, n_verify, n_digest, last, ncalls, fin_ok,
                 auth_data, len_ct, n_hashup, ret_cat>>

\* encrypting: self._updated = True
Enc_update_L59 ==
  /\ pc = "L59"
  /\ updated' = TRUE
  /\ pc' = "L60"
  /\ UNCHANGED <<fixed, update_func, cipher_ad, cipher_data, n_crpup,
                 n_adup, n_verify, n_digest, n_update, last, ncalls, fin_ok,
                 frame, auth_data, len_ct, n_hashup, ret_cat, in_cat>>

\* encrypting: ctxt = crpup(data)
Enc_update_L60 ==
  /\ pc = "L60"
  /\ frame' = [frame EXCEPT !.ctxt = CrpOut(frame.data)]
  /\ cipher_data' = CrpStream(frame.data)
  /\ n_crpup' = n_crpup + 1
  /\ pc' = "L61"
  /\ UNCHANGED <<fixed, update_func, updated, cipher_ad, n_adup, n_verify,
                 n_digest, n_update, last, ncalls, fin_ok, auth_data, len_ct,
                 n_hashup, ret_cat, in_cat>>

\* encrypting: self._len_ct += len(ctxt)
Enc_update_L61 ==
  /\ pc = "L61"
  /\ len_ct' = len_ct + Len(frame.ctxt)
  /\ pc' = "L62"
  /\ UNCHANGED <<fixed, update_func, updated, cipher_ad, cipher_data,
                 n_crpup, n_adup, n_verify, n_digest, n_update, last, ncalls,
                 fin_ok, frame, auth_data, n_hashup, ret_cat, in_cat>>

\* hashup(ctxt), as it would be if the closure's argument were hashed.
Enc_update_L62_plain ==
  /\ pc = "L62"
  /\ auth_data' = auth_data \o frame.data
  /\ n_hashup' = n_hashup + 1
  /\ pc' = "L63"
  /\ UNCHANGED <<fixed, update_func, updated, cipher_ad, cipher_data,
                 n_crpup, n_adup, n_verify, n_digest, n_update, last, ncalls,
                 fin_ok, frame, len_ct, ret_cat, in_cat>>

\* encrypting: hashup(ctxt)
Enc_update_L62 ==
  /\ pc = "L62"
  /\ auth_data' = auth_data \o frame.ctxt
  /\ n_hashup' = n_hashup + 1
  /\ pc' = "L63"
  /\ UNCHANGED <<fixed, update_func, updated, cipher_ad, cipher_data,
                 n_crpup, n_adup, n_verify, n_digest, n_update, last, ncalls,
                 fin_ok, frame, len_ct, ret_cat, in_cat>>

\* encrypting: return ctxt
Enc_update_L63 ==
  /\ pc = "L63"
  /\ Called(Outcome("update", "ok", "bytes", frame.data, frame.ctxt, NoTag))
  /\ ret_cat' = ret_cat \o frame.ctxt
  /\ frame' = NoFrame
  /\ pc' = "idle"
  /\ UNCHANGED <<fixed, update_func, updated, cipher_ad, cipher_data,
                 n_crpup, n_adup, n_verify, n_digest, n_update, fin_ok,
                 auth_data, len_ct, n_hashup, in_cat>>

\* decrypting: self._updated = True
Dec_update_L67 ==
  /\ pc = "L67"
  /\ updated' = TRUE
  /\ pc' = "L68"
  /\ UNCHANGED <<fixed, update_func, cipher_ad, cipher_data, n_crpup,
                 n_adup, n_verify, n_digest, n_update, last, ncalls, fin_ok,
                 frame, auth_data, len_ct, n_hashup, ret_cat, in_cat>>

\* hashup(ctxt), as it would be if the MAC were fed what the cipher makes
\* of the argument.
Dec_update_L68_plain ==
  /\ pc = "L68"
  /\ auth_data' = auth_data \o CrpOut(frame.data)
  /\ n_hashup' = n_hashup + 1
  /\ pc' = "L69"
  /\ UNCHANGED <<fixed, update_func, updated, cipher_ad, cipher_data,
                 n_crpup, n_adup, n_verify, n_digest, n_update, last, ncalls,
                 fin_ok, frame, len_ct, ret_cat, in_cat>>

\* decrypting: hashup(ctxt)
Dec_update_L68 ==
  /\ pc = "L68"
  /\ auth_data' = auth_data \o frame.data
  /\ n_hashup' = n_hashup + 1
  /\ pc' = "L69"
  /\ UNCHANGED <<fixed, update_func, updated, cipher_ad, cipher_data,
                 n_crpup, n_adup, n_verify, n_digest, n_update, last, ncalls,
                 fin_ok, frame, len_ct, ret_cat, in_cat>>

\* decrypting: self._len_ct += len(ctxt)
Dec_update_L69 ==
  /\ pc = "L69"
  /\ len_ct' = len_ct + Len(frame.data)
  /\ pc' = "L70"
  /\ UNCHANGED <<fixed, update_func, updated, cipher_ad, cipher_data,
                 n_crpup, n_adup, n_verify, n_digest, n_update, last, ncalls,
                 fin_ok, frame, auth_data, n_hashup, ret_cat, in_cat>>

\* return crpup(ctxt), as it would be if the argument were returned as it
\* came.
Dec_update_L70_echo ==
  /\ pc = "L70"
  /\ cipher_data' = CrpStream(frame.data)
  /\ n_crpup' = n_crpup + 1
  /\ Called(Outcome("update", "ok", "bytes", frame.data, frame.data, NoTag))
  /\ ret_cat' = ret_cat \o frame.data
  /\ frame' = NoFrame
  /\ pc' = "idle"
  /\ UNCHANGED <<fixed, update_func, updated, cipher_ad, n_adup, n_verify,
                 n_digest, n_update, fin_ok, auth_data, len_ct, n_hashup,
                 in_cat>>

\* decrypting: return crpup(ctxt)
Dec_update_L70 ==
  /\ pc = "L70"
  /\ cipher_data' = CrpStream(frame.data)
  /\ n_crpup' = n_crpup + 1
  /\ Called(Outcome("update", "ok", "bytes", frame.data, CrpOut(frame.data),
                    NoTag))
  /\ ret_cat' = ret_cat \o CrpOut(frame.data)
  /\ frame' = NoFrame
  /\ pc' = "idle"
  /\ UNCHANGED <<fixed, update_func, updated, cipher_ad, n_adup, n_verify,
                 n_digest, n_update, fin_ok, auth_data, len_ct, n_hashup,
                 in_cat>>

NextHmac ==
  \/ \E data \in Chunks : CipherWrapper_update_call(data)
  \/ Enc_update_L59
  \/ Enc_update_L60
  \/ Enc_update_L61
  \/ Enc_update_L62
  \/ Enc_update_L63
  \/ Dec_update_L67
  \/ Dec_update_L68
  \/ Dec_update_L69
  \/ Dec_update_L70

SpecHmac == InitHmac /\ [][NextHmac]_vars

\* ----------------------------------------------------------------- claims

\* The step is a call of `op` on the context (every step of Spec is a call).
IsCall(ops) == ncalls' = ncalls + 1 /\ last'.op \in ops

\* What the primitive has been asked to do so far.
primitive == <<cipher_ad, cipher_data, n_crpup, n_adup, n_verify, n_digest>>

\* C1: on the two templates, once a finalize call has returned, every
\* update, update_into and authenticate call raises AlreadyFinalized and
\* reaches neither the transform nor the associated-data channel.
C1_InertAfterFinalize ==
  [][(kind \in Templates /\ fin_ok
        /\ IsCall({"update", "update_into", "authenticate"}))
       => (last'.res = "AlreadyFinalized" /\ UNCHANGED primitive)]_vars

C1_Witness ==
  /\ kind = "AEADCipherTemplate"
  /\ fin_ok
  /\ last.op \in {"update", "update_into", "authenticate"}
  /\ last.res = "AlreadyFinalized"

\* C2: on the two templates, in both directions, once finalize has
\* succeeded every further finalize call, with or without a tag, raises
\* AlreadyFinalized, and the context never becomes active again.
C2_FinalizeOnce ==
  [][(kind \in Templates /\ fin_ok)
       => /\ update_func = "None"
          /\ update_func' = "None"
          /\ (IsCall({"finalize"}) => last'.res = "AlreadyFinalized")]_vars

C2_Witness ==
  /\ kind = "AEADCipherTemplate"
  /\ fin_ok
  /\ last.op = "finalize"
  /\ last.tag # NoTag
  /\ last.res = "AlreadyFinalized"

\* C3: on AEADCipherWrapper, encrypting or decrypting with a tag, once
\* finalize has succeeded a further finalize call raises AlreadyFinalized.
\* (The claim adds that update and authenticate do not succeed afterwards;
\* the wrapper leaves those to the primitive.)
C3_WrapperFinalizeOnce ==
  [][(kind = "AEADCipherWrapper" /\ fin_ok /\ IsCall({"finalize"}))
       => last'.res = "AlreadyFinalized"]_vars

\* C4: on an active AEADCipherTemplate, authenticate succeeds and passes
\* its data to the associated-data channel alone if no update or
\* update_into call was made before, and raises TypeError without reaching
\* the primitive once one was made, whatever data that call carried.
C4_AuthenticateBeforeUpdate ==
  [][(kind = "AEADCipherTemplate" /\ update_func = "bound"
        /\ IsCall({"authenticate"}))
       => IF n_update = 0
            THEN /\ last'.res = "ok"
                 /\ cipher_ad' = cipher_ad \o last'.arg
                 /\ n_adup' = n_adup + 1
                 /\ UNCHANGED <<cipher_data, n_crpup, n_verify, n_digest>>
            ELSE /\ last'.res = "TypeError"
                 /\ UNCHANGED primitive]_vars

C4_Witness ==
  /\ kind = "AEADCipherTemplate"
  /\ update_func = "bound"
  /\ last.op = "authenticate"
  /\ last.res = "TypeError"
  /\ n_update > 0
  /\ cipher_data = <<>>

\* C5: AEADCipherWrapper refuses authenticate once update or update_into
\* was called, whatever the primitive would accept.
C5_WrapperAuthenticateOrder ==
  [][(kind = "AEADCipherWrapper" /\ n_update > 0
        /\ IsCall({"authenticate"}))
       => (last'.res # "ok" /\ cipher_ad' = cipher_ad)]_vars

\* C6: on every AEAD context, finalize without a tag on an active
\* decrypting context raises ValueError and does not call verify.
C6_TagRequired ==
  [][(kind \in AEADKinds /\ ~encrypting
        /\ (kind = "AEADCipherTemplate" => update_func = "bound")
        /\ IsCall({"finalize"}) /\ last'.tag = NoTag)
       => (last'.res = "ValueError" /\ n_verify' = n_verify)]_vars

\* C7: on every encrypting AEAD context calculate_tag raises NotFinalized,
\* returning nothing and asking for no digest, until finalize has been
\* called, and returns the primitive's tag afterwards.
C7_TagOnlyAfterFinalize ==
  [][(kind \in AEADKinds /\ encrypting /\ IsCall({"calculate_tag"}))
       => IF fin_ok
            THEN /\ last'.res = "ok"
                 /\ last'.ret = "tag"
                 /\ last'.tag = PrimTag(cipher_ad, cipher_data)
            ELSE /\ last'.res = "NotFinalized"
                 /\ last'.ret = "None"
                 /\ n_digest' = n_digest]_vars

\* C8: on every decrypting AEAD context calculate_tag returns no tag and
\* never asks the primitive for a digest.
C8_NoTagWhenDecrypting ==
  [][(kind \in AEADKinds /\ ~encrypting /\ IsCall({"calculate_tag"}))
       => (last'.ret = "None" /\ n_digest' = n_digest)]_vars

\* C9: on an active decrypting AEAD context, finalize with a tag calls
\* verify, raises DecryptionError exactly when the tag is not the tag of
\* the associated data and ciphertext processed so far, and returns
\* normally exactly when it is.
C9_VerifyDecides ==
  [][(kind \in AEADKinds /\ ~encrypting
        /\ (kind = "AEADCipherTemplate" => update_func = "bound")
        /\ IsCall({"finalize"}) /\ last'.tag # NoTag)
       => /\ n_verify' = n_verify + 1
          /\ last'.res \in {"ok", "DecryptionError"}
          /\ last'.res = "ok" <=> last'.tag = PrimTag(cipher_ad, cipher_data)
          /\ UNCHANGED <<cipher_ad, cipher_data>>]_vars

C9_Witness ==
  /\ kind \in AEADKinds
  /\ ~encrypting
  /\ last.op = "finalize"
  /\ last.res = "DecryptionError"
  /\ last.tag[2] # cipher_data
  /\ cipher_data # <<>>

\* C10: in the encrypting update closure of the HMAC composition the MAC
\* is fed only after the cipher has run, it is fed exactly the ciphertext
\* the call then returns, and so the MAC's payload input is the returned
\* ciphertexts in call order and differs from the plaintext in every byte.
C10_MacOverCiphertext ==
  (kind = "HMACCipherWrapper" /\ encrypting)
    => /\ n_hashup <= n_crpup
       /\ auth_data = Encrypt(SubSeq(in_cat, 1, Len(auth_data)), 0)
       /\ \A i \in 1..Len(auth_data) : auth_data[i] # in_cat[i]
       /\ pc = "L63" => auth_data = ret_cat \o frame.ctxt
       /\ pc = "idle" => (auth_data = ret_cat /\ n_hashup = n_crpup)

C10_Witness ==
  /\ kind = "HMACCipherWrapper"
  /\ encrypting
  /\ pc = "idle"
  /\ ncalls = 2
  /\ Len(last.out) = 1
  /\ Len(auth_data) = 2
  /\ auth_data = ret_cat

\* C11: in the decrypting update closure of the HMAC composition the MAC
\* is fed the closure's argument before the cipher is invoked on it, and
\* the MAC's payload input is the arguments of the calls in call order.
C11_MacBeforeDecrypt ==
  (kind = "HMACCipherWrapper" /\ ~encrypting)
    => /\ n_crpup <= n_hashup
       /\ Len(cipher_data) <= Len(auth_data)
       /\ auth_data = SubSeq(in_cat, 1, Len(auth_data))
       /\ pc \in {"L69", "L70", "idle"} => auth_data = in_cat
       /\ pc = "idle" => (n_hashup = n_crpup /\ cipher_data = auth_data)

C11_Witness ==
  /\ kind = "HMACCipherWrapper"
  /\ ~encrypting
  /\ pc = "L70"
  /\ ncalls = 1
  /\ Len(frame.data) = 1
  /\ Len(auth_data) = 2
  /\ Len(cipher_data) = 1


\* ============================================================ update_into
\* The update_into closures of the HMAC composition, statement by
\* statement, and the transform a context without a MAC hands out as is.

\* The closure is entered with the buffers `data` and `out`, of one length;
\* `inplace` when the caller passes one buffer as both.
CipherWrapper_update_into_call(data, inplace) ==
  /\ pc = "idle"
  /\ ncalls < CallLimit
  /\ frame' = [NoFrame EXCEPT !.data = data,
                              !.out = IF inplace THEN data
                                      ELSE [k \in 1..Len(data) |-> 0],
                              !.inplace = inplace]
  /\ in_cat' = in_cat \o data
  /\ n_update' = n_update + 1
  /\ pc' = IF encrypting THEN "L86" ELSE "L93"
  /\ UNCHANGED <<built, stage, wire, update_func, updated, cipher_ad,
                 cipher_data,
                 n_crpup, n_adup, n_verify, n_digest, last, ncalls, fin_ok,
                 auth_data, len_ct, n_hashup, ret_cat>>

\* crpup(data, out) raises ValueError: the primitive takes an output
\* buffer of the length of its input only.
CrpIntoRefuses(f) == Len(f.out) # Len(f.data)

\* crpup(data, out): the buffers afterwards.
CrpInto(f) ==
  [f EXCEPT !.out = CrpOut(f.data),
            !.data = IF f.inplace THEN CrpOut(f.data) ELSE f.data]

\* encrypting: self._updated = True
Enc_update_into_L86 ==
  /\ pc = "L86"
  /\ updated' = TRUE
  /\ pc' = "L87"
  /\ UNCHANGED <<fixed, update_func, cipher_ad, cipher_data, n_crpup,
                 n_adup, n_verify, n_digest, n_update, last, ncalls, fin_ok,
                 frame, auth_data, len_ct, n_hashup, ret_cat, in_cat>>

\* encrypting: crpup(data, out); its ValueError ends the call
Enc_update_into_L87 ==
  /\ pc = "L87"
  /\ n_crpup' = n_crpup + 1
  /\ IF CrpIntoRefuses(frame)
       THEN /\ Called(Raise("update_into", "ValueError", frame.data, NoTag))
            /\ frame' = NoFrame
            /\ pc' = "idle"
            /\ UNCHANGED cipher_data
       ELSE /\ frame' = CrpInto(frame)
            /\ cipher_data' = CrpStream(frame.data)
            /\ pc' = "L88"
            /\ UNCHANGED <<last, ncalls>>
  /\ UNCHANGED <<fixed, update_func, updated, cipher_ad, n_adup, n_verify,
                 n_digest, n_update, fin_ok, auth_data, len_ct, n_hashup,
                 ret_cat, in_cat>>

\* encrypting: self._len_ct += len(out)
Enc_update_into_L88 ==
  /\ pc = "L88"
  /\ len_ct' = len_ct + Len(frame.out)
  /\ pc' = "L89"
  /\ UNCHANGED <<fixed, update_func, updated, cipher_ad, cipher_data,
                 n_crpup, n_adup, n_verify, n_digest, n_update, last, ncalls,
                 fin_ok, frame, auth_data, n_hashup, ret_cat, in_cat>>

\* encrypting: hashup(out), and the closure returns None
Enc_update_into_L89 ==
  /\ pc = "L89"
  /\ auth_data' = auth_data \o frame.out
  /\ n_hashup' = n_hashup + 1
  /\ Called(Outcome("update_into", "ok", "None", frame.data, frame.out,
                    NoTag))
  /\ ret_cat' = ret_cat \o frame.out
  /\ frame' = NoFrame
  /\ pc' = "idle"
  /\ UNCHANGED <<fixed, update_func, updated, cipher_ad, cipher_data,
                 n_crpup, n_adup, n_verify, n_digest, n_update, fin_ok,
                 len_ct, in_cat>>

\* decrypting: self._updated = True
Dec_update_into_L93 ==
  /\ pc = "L93"
  /\ updated' = TRUE
  /\ pc' = "L94"
  /\ UNCHANGED <<fixed, update_func, cipher_ad, cipher_data, n_crpup,
                 n_adup, n_verify, n_digest, n_update, last, ncalls, fin_ok,
                 frame, auth_data, len_ct, n_hashup, ret_cat, in_cat>>

\* hashup(data), as it would be if the MAC were fed what the cipher makes
\* of the buffer.
Dec_update_into_L94_late ==
  /\ pc = "L94"
  /\ auth_data' = auth_data \o CrpOut(frame.data)
  /\ n_hashup' = n_hashup + 1
  /\ pc' = "L95"
  /\ UNCHANGED <<fixed, update_func, updated, cipher_ad, cipher_data,
                 n_crpup, n_adup, n_verify, n_digest, n_update, last, ncalls,
                 fin_ok, frame, len_ct, ret_cat, in_cat>>

\* decrypting: hashup(data)
Dec_update_into_L94 ==
  /\ pc = "L94"
  /\ auth_data' = auth_data \o frame.data
  /\ n_hashup' = n_hashup + 1
  /\ pc' = "L95"
  /\ UNCHANGED <<fixed, update_func, updated, cipher_ad, cipher_data,
                 n_crpup, n_adup, n_verify, n_digest, n_update, last, ncalls,
                 fin_ok, frame, len_ct, ret_cat, in_cat>>

\* decrypting: self._len_ct += len(data)
Dec_update_into_L95 ==
  /\ pc = "L95"
  /\ len_ct' = len_ct + Len(frame.data)
  /\ pc' = "L96"
  /\ UNCHANGED <<fixed, update_func, updated, cipher_ad, cipher_data,
                 n_crpup, n_adup, n_verify, n_digest, n_update, last, ncalls,
                 fin_ok, frame, auth_data, n_hashup, ret_cat, in_cat>>

\* decrypting: crpup(data, out), and the closure returns None; the
\* ValueError of crpup ends the call
Dec_update_into_L96 ==
  /\ pc = "L96"
  /\ n_crpup' = n_crpup + 1
  /\ IF CrpIntoRefuses(frame)
       THEN /\ Called(Raise("update_into", "ValueError", frame.data, NoTag))
            /\ UNCHANGED <<cipher_data, ret_cat>>
       ELSE /\ cipher_data' = CrpStream(frame.data)
            /\ Called(Outcome("update_into", "ok", "None",
                              CrpInto(frame).data, CrpInto(frame).out,
                              NoTag))
            /\ ret_cat' = ret_cat \o CrpInto(frame).out
  /\ frame' = NoFrame
  /\ pc' = "idle"
  /\ UNCHANGED <<fixed, update_func, updated, cipher_ad, n_adup, n_verify,
                 n_digest, n_update, fin_ok, auth_data, len_ct, n_hashup,
                 in_cat>>

\* The contexts whose update and update_into are the transform's own
\* methods: there is no MAC to feed.
Bare == {"CipherWrapper", "AEADCipherWrapper"}

\* update is crpup
Crp_update(data) ==
  /\ kind \in Bare
  /\ n_update' = n_update + 1
  /\ cipher_data' = CrpStream(data)
  /\ n_crpup' = n_crpup + 1
  /\ Called(Outcome("update", "ok", "bytes", data, CrpOut(data), NoTag))
  /\ in_cat' = in_cat \o data
  /\ ret_cat' = ret_cat \o CrpOut(data)
  /\ UNCHANGED <<fixed, update_func, updated, cipher_ad, n_adup, n_verify,
                 n_digest, fin_ok, pc, frame, auth_data, len_ct, n_hashup>>

\* update_into is crpup
Crp_update_into(data) ==
  /\ kind \in Bare
  /\ n_update' = n_update + 1
  /\ cipher_data' = CrpStream(data)
  /\ n_crpup' = n_crpup + 1
  /\ Called(Outcome("update_into", "ok", "None", data, CrpOut(data), NoTag))
  /\ in_cat' = in_cat \o data
  /\ ret_cat' = ret_cat \o CrpOut(data)
  /\ UNCHANGED <<built, stage, wire, update_func, updated, cipher_ad,
                 n_adup, n_verify, n_digest, fin_ok, pc, frame, auth_data,
                 len_ct, n_hashup>>

\* ============================================================== HMACMixin
\* authenticate, finalize and calculate_tag of the HMAC composition.

\* The MAC's digest: one MAC runs over the associated data and then the
\* payload it was fed.
HmacTag(ad, data) == <<ad \o data>>

\* authenticate(data): legal before the first update only; feeds the MAC.
HMACMixin_authenticate(data) ==
  /\ kind = "HMACCipherWrapper"
  /\ pc = "idle"
  /\ IF update_func = "None"
       THEN /\ Called(Raise("authenticate", "AlreadyFinalized", data, NoTag))
            /\ UNCHANGED <<cipher_ad, n_adup>>
       ELSE IF updated
         THEN /\ Called(Raise("authenticate", "TypeError", data, NoTag))
              /\ UNCHANGED <<cipher_ad, n_adup>>
         ELSE /\ cipher_ad' = cipher_ad \o data
              /\ n_adup' = n_adup + 1
              /\ Called(Return("authenticate", data, NoTag))
  /\ UNCHANGED <<fixed, update_func, updated, cipher_data, n_crpup,
                 n_verify, n_digest, n_update, fin_ok, hmac>>

\* finalize(tag): once; decrypting needs the tag and compares it with the
\* MAC's digest.
HMACMixin_finalize(tag) ==
  /\ kind = "HMACCipherWrapper"
  /\ pc = "idle"
  /\ IF update_func = "None"
       THEN /\ Called(Raise("finalize", "AlreadyFinalized", <<>>, tag))
            /\ UNCHANGED <<update_func, n_verify, fin_ok>>
       ELSE IF encrypting
         THEN /\ Called(Return("finalize", <<>>, tag))
              /\ update_func' = "None"
              /\ fin_ok' = TRUE
              /\ UNCHANGED n_verify
         ELSE IF tag = NoTag
           THEN /\ Called(Raise("finalize", "ValueError", <<>>, tag))
                /\ UNCHANGED <<update_func, n_verify, fin_ok>>
           ELSE /\ n_verify' = n_verify + 1
                /\ update_func' = "None"
                /\ IF tag = HmacTag(cipher_ad, auth_data)
                     THEN /\ Called(Return("finalize", <<>>, tag))
                          /\ fin_ok' = TRUE
                     ELSE /\ Called(Raise("finalize", "DecryptionError",
                                          <<>>, tag))
                          /\ UNCHANGED fin_ok
  /\ UNCHANGED <<fixed, updated, cipher_ad, cipher_data, n_crpup, n_adup,
                 n_digest, n_update, hmac>>

\* calculate_tag(): the MAC's digest, of an encrypting context that was
\* finalized.
HMACMixin_calculate_tag ==
  /\ kind = "HMACCipherWrapper"
  /\ pc = "idle"
  /\ IF update_func # "None"
       THEN /\ Called(Raise("calculate_tag", "NotFinalized", <<>>, NoTag))
            /\ UNCHANGED n_digest
       ELSE IF encrypting
         THEN /\ n_digest' = n_digest + 1
              /\ Called(Outcome("calculate_tag", "ok", "tag", <<>>, <<>>,
                                HmacTag(cipher_ad, auth_data)))
         ELSE /\ Called(Return("calculate_tag", <<>>, NoTag))
              /\ UNCHANGED n_digest
  /\ UNCHANGED <<fixed, update_func, updated, cipher_ad, cipher_data,
                 n_crpup, n_adup, n_verify, n_update, fin_ok, hmac>>

\* ============================================================ matching pair
\* An encrypting context and then the decrypting context built with the
\* same key, nonce and mode, which is fed what the first one produced.

InitRound ==
  /\ kind \in Bare \cup {"HMACCipherWrapper"}
  /\ encrypting = TRUE
  /\ primStrict \in (IF kind = "AEADCipherWrapper" THEN BOOLEAN ELSE {FALSE})
  /\ stage = "enc"
  /\ wire = NoWire
  /\ NoOthers
  /\ drv = NoDrive
  /\ Blank

\* The rest of `whole` after the first n elements, cut at every length;
\* the empty chunk once nothing is left.
NextChunks(whole, n) ==
  IF n >= Len(whole) THEN {<<>>}
  ELSE {SubSeq(whole, n + 1, n + k) : k \in 1..(Len(whole) - n)}

\* What the caller passes to update and update_into: any plaintext, and
\* then the ciphertext of the pair in any chunking.
PayloadIn ==
  IF stage = "dec" THEN NextChunks(wire.ct, Len(in_cat)) ELSE Chunks

\* What the caller passes to authenticate: the decrypting side is given
\* the associated data of the encrypting side.
AdIn ==
  IF stage = "dec" THEN NextChunks(wire.ad, Len(cipher_ad)) ELSE AdChunks

\* What the caller passes to finalize: dec.finalize(enc.calculate_tag()).
TagIn == IF stage = "dec" THEN {wire.tag} ELSE {NoTag}

\* The decrypting context is constructed; the ciphertext, the associated
\* data and enc.calculate_tag() are what it will be given.
HandOver ==
  /\ stage = "enc"
  /\ pc = "idle"
  /\ kind = "CipherWrapper" \/ last.op = "calculate_tag"
  /\ stage' = "dec"
  /\ wire' = [ad |-> cipher_ad, ct |-> ret_cat, plain |-> in_cat,
              tag |-> IF last.op = "calculate_tag" THEN last.tag ELSE NoTag]
  /\ encrypting' = FALSE
  /\ UNCHANGED <<kind, primStrict, drv, others>>
  /\ update_func' = "bound"
  /\ updated' = FALSE
  /\ cipher_ad' = <<>>
  /\ cipher_data' = <<>>
  /\ n_crpup' = 0
  /\ n_adup' = 0
  /\ n_verify' = 0
  /\ n_digest' = 0
  /\ n_update' = 0
  /\ last' = Outcome("new", "ok", "None", <<>>, <<>>, NoTag)
  /\ ncalls' = 0
  /\ fin_ok' = FALSE
  /\ pc' = "idle"
  /\ frame' = NoFrame
  /\ auth_data' = <<>>
  /\ len_ct' = 0
  /\ n_hashup' = 0
  /\ ret_cat' = <<>>
  /\ in_cat' = <<>>

NextRound ==
  \/ /\ kind = "HMACCipherWrapper"
     /\ \E data \in PayloadIn : CipherWrapper_update_call(data)
  \/ Enc_update_L59
  \/ Enc_update_L60
  \/ Enc_update_L61
  \/ Enc_update_L62
  \/ Enc_update_L63
  \/ Dec_update_L67
  \/ Dec_update_L68
  \/ Dec_update_L69
  \/ Dec_update_L70
  \/ /\ kind = "HMACCipherWrapper"
     /\ \E data \in PayloadIn :
          CipherWrapper_update_into_call(data, FALSE)
     /\ UNCHANGED drv
  \/ Enc_update_into_L86
  \/ Enc_update_into_L87
  \/ Enc_update_into_L88
  \/ Enc_update_into_L89
  \/ Dec_update_into_L93
  \/ Dec_update_into_L94
  \/ Dec_update_into_L95
  \/ Dec_update_into_L96
  \/ \E data \in PayloadIn : Crp_update(data)
  \/ \E data \in PayloadIn : Crp_update_into(data) /\ UNCHANGED drv
  \/ \E data \in AdIn : HMACMixin_authenticate(data)
  \/ \E tag \in TagIn : HMACMixin_finalize(tag)
  \/ stage = "enc" /\ HMACMixin_calculate_tag
  \/ \E data \in AdIn : AEADCipherWrapper_authenticate(data)
  \/ \E tag \in TagIn : AEADCipherWrapper_finalize(tag)
  \/ stage = "enc" /\ AEADCipherWrapper_calculate_tag
  \/ HandOver

SpecRound == InitRound /\ [][NextRound]_vars

\* C12: of a matching pair with a MAC or a native tag, when the decrypting
\* context has been given the associated data and exactly the ciphertext of
\* the encrypting one, through update or update_into in any chunking, its
\* first finalize with the tag enc.calculate_tag() returned returns
\* normally.
C12_MatchingTagVerifies ==
  [][(stage = "dec" /\ kind # "CipherWrapper"
        /\ IsCall({"finalize"})
        /\ wire.tag # NoTag
        /\ last'.tag = wire.tag
        /\ n_verify = 0
        /\ in_cat = wire.ct
        /\ cipher_ad = wire.ad)
       => last'.res = "ok"]_vars

C12_Witness ==
  /\ stage = "dec"
  /\ kind = "HMACCipherWrapper"
  /\ last.op = "finalize"
  /\ last.res = "ok"
  /\ last.tag = wire.tag
  /\ Len(wire.ct) = 2
  /\ in_cat = wire.ct
  /\ n_update = 2
  /\ wire.ad # <<>>
  /\ cipher_ad = wire.ad

\* C13: of a matching pair, with or without a MAC and with or without
\* associated data, what the decrypting context has returned for the
\* ciphertext given to it so far is the plaintext the ciphertext was made
\* from, and it is the whole plaintext, the empty one included, once the
\* whole ciphertext was given.
C13_RoundTrip ==
  (stage = "dec" /\ pc = "idle")
    => /\ Len(ret_cat) = Len(in_cat)
       /\ ret_cat = SubSeq(wire.plain, 1, Len(ret_cat))
       /\ in_cat = wire.ct => ret_cat = wire.plain

C13_Witness ==
  /\ stage = "dec"
  /\ kind = "HMACCipherWrapper"
  /\ pc = "idle"
  /\ wire.ad # <<>>
  /\ Len(wire.plain) = 2
  /\ in_cat = wire.ct
  /\ ret_cat = wire.plain
  /\ wire.ct # wire.plain
  /\ last.op = "update"
  /\ n_update = 2

\* ========================================================= FileCipherMixin
\* update_into(file, tag, blocksize) of a file cipher, statement by
\* statement, over a context that was just constructed.

\* The fields of the context, which the statements of update_into itself
\* leave alone.
context == <<built, update_func, updated, cipher_ad, cipher_data, n_crpup,
             n_adup, n_verify, n_digest, n_update, last, ncalls, fin_ok,
             hmac>>

Min(a, b) == IF a < b THEN a ELSE b

\* The tag of a context of this kind that was given `ad` and then `ct`.
TagOf(ad, ct) ==
  IF kind = "HMACCipherWrapper" THEN HmacTag(ad, ct) ELSE PrimTag(ad, ct)

\* What self.__file.readinto(buf) can return: nothing at the end, else as
\* much as fits, or any smaller number of bytes from a raw source.
ReadSizes ==
  IF drv.pos = Len(drv.src) THEN {0}
  ELSE IF drv.raw THEN 1..Min(drv.blocksize, Len(drv.src) - drv.pos)
  ELSE {Min(drv.blocksize, Len(drv.src) - drv.pos)}

\* The bytes of the memoryview `buf`.
Buf == SubSeq(drv.arr, 1, drv.view)

\* The bytearray after `data` was stored at its start.
Stored(data) ==
  data \o SubSeq(drv.arr, Len(data) + 1, Len(drv.arr))

\* if not self._locking and tag is None:
File_update_into_L181 ==
  /\ drv.pc = "L181"
  /\ drv' = [drv EXCEPT !.pc = IF ~encrypting /\ drv.tag = NoTag
                                 THEN "L182" ELSE "L183"]
  /\ UNCHANGED <<context, stage, wire>>

\* raise TypeError('tag is required for decryption')
File_update_into_L182 ==
  /\ drv.pc = "L182"
  /\ drv' = [drv EXCEPT !.pc = "raised", !.exc = "TypeError"]
  /\ UNCHANGED <<context, stage, wire>>

\* buf = memoryview(bytearray(blocksize)); reads = iter(partial(
\* self.__file.readinto, buf), 0): reads keeps the whole bytearray
File_update_into_L183 ==
  /\ drv.pc = "L183"
  /\ drv' = [drv EXCEPT !.pc = "L189",
                        !.arr = [k \in 1..drv.blocksize |-> 0],
                        !.view = drv.blocksize]
  /\ UNCHANGED <<context, stage, wire>>

\* for i in reads, as it would be if a read of nothing did not end the
\* loop
File_update_into_L189_spin(n) ==
  /\ drv.pc = "L189"
  /\ pc = "idle"
  /\ drv' = [drv EXCEPT !.pc = "L190",
                        !.i = n,
                        !.arr = Stored(SubSeq(drv.src, drv.pos + 1,
                                              drv.pos + n)),
                        !.pos = drv.pos + n,
                        !.nread = drv.nread + 1]
  /\ UNCHANGED <<context, stage, wire>>

\* for i in reads: readinto fills the start of the bytearray and returns
\* n; the loop ends when n is 0
File_update_into_L189(n) ==
  /\ drv.pc = "L189"
  /\ pc = "idle"
  /\ drv' = IF n = 0
              THEN [drv EXCEPT !.pc = "L194", !.i = 0]
              ELSE [drv EXCEPT !.pc = "L190",
                               !.i = n,
                               !.arr = Stored(SubSeq(drv.src, drv.pos + 1,
                                                     drv.pos + n)),
                               !.pos = drv.pos + n,
                               !.nread = drv.nread + 1]
  /\ UNCHANGED <<context, stage, wire>>

\* if i < blocksize, as it would be if a short read ended the loop
File_update_into_L190_eof ==
  /\ drv.pc = "L190"
  /\ drv' = [drv EXCEPT !.pc = IF drv.i < drv.blocksize
                                 THEN "L194" ELSE "L192"]
  /\ UNCHANGED <<context, stage, wire>>

\* if i < blocksize:
File_update_into_L190 ==
  /\ drv.pc = "L190"
  /\ drv' = [drv EXCEPT !.pc = IF drv.i < drv.blocksize
                                 THEN "L191" ELSE "L192"]
  /\ UNCHANGED <<context, stage, wire>>

\* buf = buf[:i], as it would be if the buffer were never cut
File_update_into_L191_whole ==
  /\ drv.pc = "L191"
  /\ drv' = [drv EXCEPT !.pc = "L192"]
  /\ UNCHANGED <<context, stage, wire>>

\* buf = buf[:i]
File_update_into_L191 ==
  /\ drv.pc = "L191"
  /\ drv' = [drv EXCEPT !.pc = "L192", !.view = Min(drv.view, drv.i)]
  /\ UNCHANGED <<context, stage, wire>>

\* update(buf, buf)
File_update_into_L192 ==
  /\ drv.pc = "L192"
  /\ drv' = [drv EXCEPT !.pc = "L193"]
  /\ IF kind \in Bare
       THEN Crp_update_into(Buf)
       ELSE CipherWrapper_update_into_call(Buf, TRUE)

\* write(buf), as it would be if the whole bytearray were written
File_update_into_L193_all ==
  /\ drv.pc = "L193"
  /\ pc = "idle"
  /\ drv' = [drv EXCEPT !.pc = "L189",
                        !.arr = Stored(last.out),
                        !.sink = drv.sink \o Stored(last.out),
                        !.nwrite = drv.nwrite + 1]
  /\ UNCHANGED <<context, stage, wire>>

\* write(buf): buf holds what update left in it
File_update_into_L193 ==
  /\ drv.pc = "L193"
  /\ pc = "idle"
  /\ drv' = [drv EXCEPT !.pc = "L189",
                        !.arr = Stored(last.out),
                        !.sink = drv.sink \o last.out,
                        !.nwrite = drv.nwrite + 1]
  /\ UNCHANGED <<context, stage, wire>>

\* self.finalize(tag)
File_update_into_L194 ==
  /\ drv.pc = "L194"
  /\ last.op # "finalize"
  /\ IF kind \in Bare
       THEN AEADCipherWrapper_finalize(drv.tag)
       ELSE HMACMixin_finalize(drv.tag)

\* update_into returns, or what finalize raised leaves it
File_update_into_return ==
  /\ drv.pc = "L194"
  /\ last.op = "finalize"
  /\ drv' = IF last.res = "ok"
              THEN [drv EXCEPT !.pc = "done"]
              ELSE [drv EXCEPT !.pc = "raised", !.exc = last.res]
  /\ UNCHANGED <<context, stage, wire>>

\* The sources read.
Sources == BytesUpTo(MaxSrc)

\* The tags a caller passes when decrypting `src`: none, its tag, and the
\* tag of another ciphertext.
TagArgs(src) ==
  IF encrypting THEN {NoTag}
  ELSE {NoTag, TagOf(<<>>, src), TagOf(<<>>, <<1>> \o src)}

\* One file cipher, of either direction, over any source.
InitDrive ==
  /\ kind \in {"HMACCipherWrapper", "AEADCipherWrapper"}
  /\ encrypting \in BOOLEAN
  /\ primStrict = FALSE
  /\ stage = "drive"
  /\ wire = NoWire
  /\ NoOthers
  /\ Blank
  /\ \E src \in Sources, b \in 1..MaxBlock, raw \in BOOLEAN :
       \E tag \in TagArgs(src) :
         drv = [NoDrive EXCEPT !.pc = "L181", !.src = src, !.blocksize = b,
                               !.raw = raw, !.tag = tag]

NextDrive ==
  \/ File_update_into_L181
  \/ File_update_into_L182
  \/ File_update_into_L183
  \/ \E n \in ReadSizes : File_update_into_L189(n)
  \/ File_update_into_L190
  \/ File_update_into_L191
  \/ File_update_into_L192
  \/ Enc_update_into_L86
  \/ Enc_update_into_L87
  \/ Enc_update_into_L88
  \/ Enc_update_into_L89
  \/ Dec_update_into_L93
  \/ Dec_update_into_L94
  \/ Dec_update_into_L95
  \/ Dec_update_into_L96
  \/ File_update_into_L193
  \/ File_update_into_L194
  \/ File_update_into_return

SpecDrive == InitDrive /\ [][NextDrive]_vars

\* The statements are run one after the other until update_into ends.
SpecDriveFair == SpecDrive /\ WF_vars(NextDrive)

\* =================================================== matching file ciphers
\* An encrypting file cipher writes a source to a sink; the decrypting file
\* cipher built with the same key, nonce and mode then reads that sink and
\* is given enc.calculate_tag(). The files fill every read up to the end.

InitFile ==
  /\ kind \in {"HMACCipherWrapper", "AEADCipherWrapper"}
  /\ encrypting = TRUE
  /\ primStrict = FALSE
  /\ stage = "fenc"
  /\ wire = NoWire
  /\ NoOthers
  /\ Blank
  /\ \E src \in Sources, b \in 1..MaxBlock :
       drv = [NoDrive EXCEPT !.pc = "L181", !.src = src, !.blocksize = b]

\* enc.calculate_tag(), once enc.update_into has returned
File_calculate_tag ==
  /\ stage = "fenc"
  /\ drv.pc = "done"
  /\ last.op = "finalize"
  /\ IF kind \in Bare
       THEN AEADCipherWrapper_calculate_tag
       ELSE HMACMixin_calculate_tag

\* dec is constructed over the sink of enc, and dec.update_into is called
\* with the tag and the blocksize of enc.
HandOverFile ==
  /\ stage = "fenc"
  /\ last.op = "calculate_tag"
  /\ stage' = "fdec"
  /\ wire' = [ad |-> <<>>, ct |-> drv.sink, plain |-> drv.src,
              tag |-> last.tag]
  /\ drv' = [NoDrive EXCEPT !.pc = "L181", !.src = drv.sink,
                            !.blocksize = drv.blocksize, !.tag = last.tag]
  /\ encrypting' = FALSE
  /\ UNCHANGED <<kind, primStrict, others>>
  /\ update_func' = "bound"
  /\ updated' = FALSE
  /\ cipher_ad' = <<>>
  /\ cipher_data' = <<>>
  /\ n_crpup' = 0
  /\ n_adup' = 0
  /\ n_verify' = 0
  /\ n_digest' = 0
  /\ n_update' = 0
  /\ last' = Outcome("new", "ok", "None", <<>>, <<>>, NoTag)
  /\ ncalls' = 0
  /\ fin_ok' = FALSE
  /\ pc' = "idle"
  /\ frame' = NoFrame
  /\ auth_data' = <<>>
  /\ len_ct' = 0
  /\ n_hashup' = 0
  /\ ret_cat' = <<>>
  /\ in_cat' = <<>>

NextFile ==
  \/ File_update_into_L181
  \/ File_update_into_L183
  \/ \E n \in ReadSizes : File_update_into_L189(n)
  \/ File_update_into_L190
  \/ File_update_into_L191
  \/ File_update_into_L192
  \/ Enc_update_into_L86
  \/ Enc_update_into_L87
  \/ Enc_update_into_L88
  \/ Enc_update_into_L89
  \/ Dec_update_into_L93
  \/ Dec_update_into_L94
  \/ Dec_update_into_L95
  \/ Dec_update_into_L96
  \/ File_update_into_L193
  \/ File_update_into_L194
  \/ File_update_into_return
  \/ File_calculate_tag
  \/ HandOverFile

SpecFile == InitFile /\ [][NextFile]_vars

\* C14: of matching file ciphers over files, for every source and every
\* blocksize, dec.update_into(sink2, enc.calculate_tag(), blocksize) raises
\* nothing, DecryptionError in particular, and what it has written when it
\* ends is the source enc read.
C14_StreamingRoundTrip ==
  stage = "fdec"
    => /\ last.res # "DecryptionError"
       /\ drv.pc # "raised"
       /\ drv.pc = "done" => drv.sink = wire.plain

C14_Witness ==
  /\ stage = "fdec"
  /\ kind = "HMACCipherWrapper"
  /\ drv.pc = "done"
  /\ drv.blocksize = 2
  /\ Len(wire.plain) = 3
  /\ drv.sink = wire.plain
  /\ wire.ct # wire.plain
  /\ drv.nwrite = 2

\* What one update over the whole of `data` returns on a context that was
\* just constructed.
OneShot(data) == IF encrypting THEN Encrypt(data, 0) ELSE Decrypt(data, 0)

\* C15: for every blocksize, one byte at a time and the whole message at
\* once included, update_into of a file cipher over a file has written,
\* when it ends, what one update over the whole source returns, and the
\* tag of the encrypting side is the tag after that one update.
C15_StreamingEquivalence ==
  /\ (stage \in {"fenc", "fdec"} /\ drv.pc = "done")
       => drv.sink = OneShot(drv.src)
  /\ (stage = "fenc" /\ last.op = "calculate_tag")
       => (last.res = "ok" /\ last.tag = TagOf(<<>>, OneShot(drv.src)))

C15_Witness ==
  /\ stage = "fenc"
  /\ kind = "AEADCipherWrapper"
  /\ last.op = "calculate_tag"
  /\ drv.blocksize = 1
  /\ Len(drv.src) = 3
  /\ drv.nwrite = 3
  /\ drv.sink = OneShot(drv.src)
  /\ last.tag = TagOf(<<>>, drv.sink)

\* update_into is between two chunks, or past the loop.
BetweenChunks == drv.pc \in {"L189", "L194", "done", "raised"} /\ pc = "idle"

\* C16: whatever its reads return, reads shorter than blocksize that are
\* not the last included, between two chunks update_into has written as
\* many bytes as it has read, and they are the transform of the bytes read,
\* in order. (Fails: after a short read that is not the last, `buf` stays
\* cut while readinto still fills the whole bytearray.)
C16_EveryByteWritten ==
  (stage = "drive" /\ BetweenChunks /\ drv.exc # "TypeError")
    => /\ Len(drv.sink) = drv.pos
       /\ drv.sink = OneShot(SubSeq(drv.src, 1, drv.pos))

\* C17: whenever a chunk is about to be transformed, `buf` is exactly the
\* bytes the read returned, and it is shorter than blocksize only for the
\* last chunk of the source. (Fails for the reads of C16.)
C17_BufferIsChunk ==
  (stage = "drive" /\ drv.pc = "L192")
    => /\ drv.view = drv.i
       /\ drv.view < drv.blocksize => drv.pos = Len(drv.src)

\* update_into has ended.
Ended == drv.pc \in {"done", "raised"}

\* C18: update_into over a finite source ends; the loop is left at the
\* first read that returns nothing, having written nothing when the source
\* is empty; finalize is not called while chunks are read and written, and
\* is called once, after one update and one write for every read that
\* returned bytes.
C18_Terminates ==
  /\ <>Ended
  /\ [](stage = "drive" =>
          /\ drv.pc \in {"L183", "L189", "L190", "L191", "L192", "L193"}
               => (last.op # "finalize" /\ update_func = "bound"
                     /\ n_verify = 0)
          /\ drv.pc = "L194"
               => (drv.i = 0 /\ drv.pos = Len(drv.src)
                     /\ drv.nwrite = drv.nread)
          /\ (drv.pc = "L194" /\ drv.src = <<>>)
               => (drv.sink = <<>> /\ drv.nwrite = 0 /\ n_update = 0)
          /\ last.op = "finalize"
               => (drv.pc \in {"L194", "done", "raised"}
                     /\ ncalls = drv.nwrite + 1
                     /\ n_update = drv.nwrite)
          /\ drv.pc = "done" => last.op = "finalize")

C18_Witness ==
  /\ stage = "drive"
  /\ drv.pc = "done"
  /\ last.op = "finalize"
  /\ Len(drv.src) = 3
  /\ drv.blocksize = 2
  /\ drv.nwrite = 2
  /\ ncalls = 3

\* C19: update_into of a decrypting file cipher called without a tag
\* raises ValueError, with nothing read, nothing written and the context
\* not finalized. (Fails: TypeError is raised.)
C19_MissingTagValueError ==
  (stage = "drive" /\ ~encrypting /\ drv.tag = NoTag /\ Ended)
    => /\ drv.pc = "raised"
       /\ drv.exc = "ValueError"
       /\ drv.pos = 0
       /\ drv.nread = 0
       /\ drv.sink = <<>>
       /\ ncalls = 0
       /\ update_func = "bound"

\* C20: DecryptionError comes out of update_into of a decrypting file
\* cipher only from the finalize call after the loop: when it is raised the
\* last read has returned nothing, and every chunk read was passed through
\* update and written.
C20_ErrorOnlyAtFinalize ==
  (stage = "drive" /\ (last.res = "DecryptionError"
                         \/ drv.exc = "DecryptionError"))
    => /\ last.op = "finalize"
       /\ ~encrypting
       /\ drv.pc \in {"L194", "raised"}
       /\ drv.i = 0
       /\ drv.pos = Len(drv.src)
       /\ drv.nwrite = drv.nread
       /\ n_update = drv.nread
       /\ ncalls = drv.nread + 1

C20_Witness ==
  /\ stage = "drive"
  /\ ~encrypting
  /\ drv.pc = "raised"
  /\ drv.exc = "DecryptionError"
  /\ drv.tag # NoTag
  /\ drv.tag # TagOf(<<>>, drv.src)
  /\ Len(drv.src) = 3
  /\ drv.nwrite = 2
  /\ Len(drv.sink) = 3

\* ================================================= FileCipherMixin.update
\* update(blocksize) of a file cipher, called again and again by the owner
\* of the context, who finalizes in the end.

InitFileUpdate ==
  /\ kind \in {"HMACCipherWrapper", "AEADCipherWrapper"}
  /\ encrypting \in BOOLEAN
  /\ primStrict = FALSE
  /\ stage = "fupd"
  /\ wire = NoWire
  /\ NoOthers
  /\ Blank
  /\ \E src \in Sources, raw \in BOOLEAN :
       drv = [NoDrive EXCEPT !.pc = "ready", !.src = src, !.raw = raw]

\* update(blocksize) is called
File_update_call(b) ==
  /\ drv.pc = "ready"
  /\ last.op # "finalize"
  /\ drv.calls < CallLimit
  /\ drv' = [drv EXCEPT !.pc = "U165", !.blocksize = b,
                        !.calls = drv.calls + 1, !.ret = "", !.out = <<>>]
  /\ UNCHANGED <<context, stage, wire>>

\* data = self.__file.read(blocksize), as it would be if the rest of the
\* source were read whatever the blocksize
File_update_L165_rest(n) ==
  /\ drv.pc = "U165"
  /\ drv' = [drv EXCEPT !.pc = "U166",
                        !.i = Len(drv.src) - drv.pos,
                        !.arr = SubSeq(drv.src, drv.pos + 1, Len(drv.src)),
                        !.pos = Len(drv.src),
                        !.nread = drv.nread
                                    + (IF drv.pos < Len(drv.src) THEN 1
                                       ELSE 0)]
  /\ UNCHANGED <<context, stage, wire>>

\* data = self.__file.read(blocksize): n bytes, none at the end
File_update_L165(n) ==
  /\ drv.pc = "U165"
  /\ drv' = [drv EXCEPT !.pc = "U166",
                        !.i = n,
                        !.arr = SubSeq(drv.src, drv.pos + 1, drv.pos + n),
                        !.pos = drv.pos + n,
                        !.nread = drv.nread + (IF n > 0 THEN 1 ELSE 0)]
  /\ UNCHANGED <<context, stage, wire>>

\* if data: ... else the function ends and returns None
File_update_L166 ==
  /\ drv.pc = "U166"
  /\ drv' = IF drv.arr # <<>>
              THEN [drv EXCEPT !.pc = "U167"]
              ELSE [drv EXCEPT !.pc = "ready", !.ret = "None"]
  /\ UNCHANGED <<context, stage, wire>>

\* self.__update(data)
File_update_L167 ==
  /\ drv.pc = "U167"
  /\ pc = "idle"
  /\ n_update < drv.nread
  /\ IF kind \in Bare
       THEN Crp_update(drv.arr)
       ELSE CipherWrapper_update_call(drv.arr)

\* return self.__update(data)
File_update_return ==
  /\ drv.pc = "U167"
  /\ pc = "idle"
  /\ n_update = drv.nread
  /\ drv' = [drv EXCEPT !.pc = "ready", !.ret = "bytes", !.out = last.out]
  /\ UNCHANGED <<context, stage, wire>>

\* the owner calls finalize, with the tag of what was read when decrypting
File_finalize ==
  /\ stage = "fupd"
  /\ drv.pc = "ready"
  /\ last.op # "finalize"
  /\ IF kind \in Bare
       THEN AEADCipherWrapper_finalize(TagOf(cipher_ad, cipher_data))
       ELSE HMACMixin_finalize(TagOf(cipher_ad, auth_data))

NextFileUpdate ==
  \/ \E b \in 1..MaxBlock : File_update_call(b)
  \/ \E n \in ReadSizes : File_update_L165(n)
  \/ File_update_L166
  \/ File_update_L167
  \/ Enc_update_L59
  \/ Enc_update_L60
  \/ Enc_update_L61
  \/ Enc_update_L62
  \/ Enc_update_L63
  \/ Dec_update_L67
  \/ Dec_update_L68
  \/ Dec_update_L69
  \/ Dec_update_L70
  \/ File_update_return
  \/ File_finalize

SpecFileUpdate == InitFileUpdate /\ [][NextFileUpdate]_vars

\* C21: a call of update(blocksize) of a file cipher takes at most
\* blocksize bytes from the source and returns their transform, so that
\* what the calls returned is the transform of what was read; it returns
\* None when the source has nothing left; no call finalizes the context,
\* and the owner's finalize afterwards is the first and succeeds.
C21_FileUpdate ==
  stage = "fupd" =>
    /\ drv.pc = "ready" =>
         /\ ret_cat = OneShot(SubSeq(drv.src, 1, drv.pos))
         /\ drv.ret = "bytes" =>
              /\ drv.out # <<>>
              /\ Len(drv.out) <= drv.blocksize
              /\ drv.out = SubSeq(ret_cat, Len(ret_cat) - Len(drv.out) + 1,
                                  Len(ret_cat))
         /\ drv.ret = "None" => (drv.pos = Len(drv.src) /\ drv.i = 0)
    /\ last.op # "finalize"
         => (update_func = "bound" /\ n_verify = 0 /\ ~fin_ok)
    /\ last.op = "finalize" => last.res = "ok"

C21_Witness ==
  /\ stage = "fupd"
  /\ kind = "HMACCipherWrapper"
  /\ drv.pc = "ready"
  /\ drv.ret = "None"
  /\ drv.calls = 3
  /\ drv.nread = 2
  /\ Len(drv.src) = 3
  /\ ret_cat = OneShot(drv.src)
  /\ update_func = "bound"
  /\ last.op = "update"

\* ================================================================ derive_key
\* derive_key(master_key, dklen, hashalgo, salt), statement by statement.
\* Lengths are counted in units of 32 bytes.

\* digest_size of the hash objects _hashes[hashalgo]() makes.
DigestSize(hashalgo) == IF hashalgo = "sha256" THEN 1 ELSE 2

\* HKDF gives at most this many digests of output.
HkdfBlocks == 255

\* KDF.HKDF raises ValueError: too much secret data to derive.
HkdfRefuses(key_len, hashalgo) == key_len > HkdfBlocks * DigestSize(hashalgo)

\* KDF.HKDF(master, key_len, salt, hashmod, 1, context): the output stream
\* of one derivation, cut at key_len; it is another stream whenever an
\* input is another.
HKDF(master, key_len, salt, hashalgo, ctx) ==
  [k \in 1..key_len |-> <<master, salt, hashalgo, ctx, k>>]

HashAlgos == {"sha256", "sha512"}

Secrets == BytesUpTo(1)

DkLens == {0, 1, 2, 3,
           HkdfBlocks, HkdfBlocks + 1, 2 * HkdfBlocks, 2 * HkdfBlocks + 1}

InitKdf ==
  /\ kind = "none"
  /\ encrypting = FALSE
  /\ primStrict = FALSE
  /\ stage = "kdf"
  /\ wire = NoWire
  /\ drv = NoDrive
  /\ hash = NoHash
  /\ asym = NoAsym
  /\ Blank
  /\ \E m \in Secrets, n \in DkLens, h \in HashAlgos, s \in Secrets :
       kdf = [NoKdf EXCEPT !.pc = "L15", !.master_key = m, !.dklen = n,
                           !.hashalgo = h, !.salt = s]

\* What derive_key leaves alone.
nokdf == <<kind, encrypting, primStrict, hash, asym, stage, wire, drv,
           update_func, updated, cipher_ad, cipher_data, n_crpup, n_adup, n_verify,
           n_digest, n_update, last, ncalls, fin_ok, hmac>>

\* key = KDF.HKDF(master_key, dklen, salt, _hashes[hashalgo](), 1,
\*                b"enc-key")
derive_key_L15 ==
  /\ kdf.pc = "L15"
  /\ kdf' = IF HkdfRefuses(kdf.dklen, kdf.hashalgo)
              THEN [kdf EXCEPT !.pc = "raised", !.exc = "ValueError"]
              ELSE [kdf EXCEPT !.pc = "L24",
                               !.key = HKDF(kdf.master_key, kdf.dklen,
                                            kdf.salt, kdf.hashalgo,
                                            "enc-key")]
  /\ UNCHANGED nokdf

\* hash_ = _hashes[hashalgo]()
derive_key_L24 ==
  /\ kdf.pc = "L24"
  /\ kdf' = [kdf EXCEPT !.pc = "L25", !.hash_ = kdf.hashalgo]
  /\ UNCHANGED nokdf

\* hkey = KDF.HKDF(...), as it would be with the context of the first
\* derivation
derive_key_L25_samelabel ==
  /\ kdf.pc = "L25"
  /\ kdf' = [kdf EXCEPT !.pc = "L33",
                        !.hkey = HKDF(kdf.master_key, DigestSize(kdf.hash_),
                                      kdf.salt, kdf.hash_, "enc-key")]
  /\ UNCHANGED nokdf

\* hkey = KDF.HKDF(master_key, hash_.digest_size, salt, hash_, 1,
\*                 b"auth-key")
derive_key_L25 ==
  /\ kdf.pc = "L25"
  /\ kdf' = IF HkdfRefuses(DigestSize(kdf.hash_), kdf.hash_)
              THEN [kdf EXCEPT !.pc = "raised", !.exc = "ValueError"]
              ELSE [kdf EXCEPT !.pc = "L33",
                               !.hkey = HKDF(kdf.master_key,
                                             DigestSize(kdf.hash_),
                                             kdf.salt, kdf.hash_,
                                             "auth-key")]
  /\ UNCHANGED nokdf

\* return key, hkey
derive_key_L33 ==
  /\ kdf.pc = "L33"
  /\ kdf' = [kdf EXCEPT !.pc = "returned"]
  /\ UNCHANGED nokdf

NextKdf ==
  \/ derive_key_L15
  \/ derive_key_L24
  \/ derive_key_L25
  \/ derive_key_L33

SpecKdf == InitKdf /\ [][NextKdf]_vars

\* C22: the pair derive_key returns is the derivation labelled "enc-key",
\* of length dklen, and the derivation labelled "auth-key", of the length
\* of the hash's digest, both over the master key, salt and hash given;
\* the two differ, and with another master key or another salt both are
\* other keys (the first when dklen is not 0).
C22_SubkeyPair ==
  kdf.pc = "returned" =>
    /\ Len(kdf.key) = kdf.dklen
    /\ Len(kdf.hkey) = DigestSize(kdf.hashalgo)
    /\ kdf.key = HKDF(kdf.master_key, kdf.dklen, kdf.salt, kdf.hashalgo,
                      "enc-key")
    /\ kdf.hkey = HKDF(kdf.master_key, DigestSize(kdf.hashalgo), kdf.salt,
                       kdf.hashalgo, "auth-key")
    /\ kdf.key # kdf.hkey
    /\ \A m \in Secrets, s \in Secrets :
         (m # kdf.master_key \/ s # kdf.salt) =>
           /\ HKDF(m, DigestSize(kdf.hashalgo), s, kdf.hashalgo, "auth-key")
                # kdf.hkey
           /\ kdf.dklen > 0 =>
                HKDF(m, kdf.dklen, s, kdf.hashalgo, "enc-key") # kdf.key

C22_Witness ==
  /\ kdf.pc = "returned"
  /\ kdf.hashalgo = "sha512"
  /\ kdf.dklen = 2
  /\ Len(kdf.key) = Len(kdf.hkey)
  /\ kdf.key # kdf.hkey
  /\ kdf.master_key # <<>>
  /\ kdf.salt # <<>>

\* C23: when dklen is more than HKDF gives for the hash, derive_key
\* raises DerivationError and returns no pair. (Fails: the ValueError of
\* KDF.HKDF comes out as it is.)
C23_DerivationError ==
  (kdf.pc \in {"returned", "raised"}
     /\ HkdfRefuses(kdf.dklen, kdf.hashalgo))
    => /\ kdf.pc = "raised"
       /\ kdf.exc = "DerivationError"
       /\ kdf.key = <<>>
       /\ kdf.hkey = <<>>

\* ====================================================================== Hash
\* cryptodome_/_hashes.py. hash.objs are the Hash objects, hash.hashers the
\* provider's hash primitives they hold (by index), hash.last the outcome
\* of the last call and hash.n the number of calls.
\*   obj:    name, _digest_size, _hasher, final (digest was called),
\*           out (<<d>> when digest returned d last, <<>> before),
\*           prev (the same for the digest call before the last)
\*   hasher: alg, digest_size (0: no such attribute), data absorbed,
\*           squeezed (output consumed by read), canCopy (has copy())

HashNames == {"sha256", "blake2b", "shake128"}

arbitrary_digest_size_hashes == {"blake2b", "shake128"}

xofs == {"shake128"}

\* Digest sizes a caller asks of an arbitrary-digest-size hash.
DigestSizes == {1, 2}

\* What update is given.
HashData == {<<>>, <<1>>, <<2>>, <<1, 2>>}

\* Hash.__init__ picks the constructor: digest_bytes only for the
\* arbitrary-digest-size hashes that are not extendable-output functions.
NewHasher(name, data, digest_size, canCopy) ==
  [alg         |-> name,
   digest_size |-> IF name \in xofs THEN 0
                   ELSE IF name \in arbitrary_digest_size_hashes
                          THEN digest_size
                          ELSE DigestSize(name),
   data        |-> data,
   squeezed    |-> 0,
   canCopy     |-> canCopy]

\* _hasher.digest(): the digest of what was absorbed; the primitive stays
\* as it is.
PrimDigest(h) == [k \in 1..h.digest_size |-> <<h.alg, h.data, k>>]

\* _hasher.read(n): the next n units of the output stream.
PrimRead(h, n) == [k \in 1..n |-> <<h.alg, h.data, h.squeezed + k>>]

\* Hash.digest_size
Hash_digest_size(o) ==
  IF hash.hashers[hash.objs[o]._hasher].digest_size # 0
    THEN hash.hashers[hash.objs[o]._hasher].digest_size
    ELSE hash.objs[o]._digest_size

\* Primitives of the SHA-2 family have copy(); for the others it depends on
\* the provider's release.
CanCopy(name) == IF name = "sha256" THEN {TRUE} ELSE BOOLEAN

HashCalls == MaxCalls + 1

InitHash ==
  /\ kind = "none"
  /\ encrypting = FALSE
  /\ primStrict = FALSE
  /\ stage = "hash"
  /\ wire = NoWire
  /\ drv = NoDrive
  /\ kdf = NoKdf
  /\ asym = NoAsym
  /\ Blank
  /\ \E name \in HashNames, data \in {<<>>, <<1>>}, c \in BOOLEAN,
        size \in DigestSizes :
       /\ c \in CanCopy(name)
       /\ name \notin arbitrary_digest_size_hashes => size = 1
       /\ hash = [objs    |-> << [name |-> name,
                                  _digest_size |->
                                    IF name \in arbitrary_digest_size_hashes
                                      THEN size ELSE 0,
                                  _hasher |-> 1, final |-> FALSE,
                                  out |-> <<>>, prev |-> <<>>] >>,
                  hashers |-> << NewHasher(name, data, size, c) >>,
                  n       |-> 0,
                  last    |-> NoHash.last]

\* What the Hash methods leave alone.
nohash == <<kind, encrypting, primStrict, kdf, asym, stage, wire, drv,
            update_func, updated, cipher_ad, cipher_data, n_crpup, n_adup, n_verify,
            n_digest, n_update, last, ncalls, fin_ok, hmac>>

HashCalled(op, o, res, out) ==
  [op |-> op, on |-> o, res |-> res, out |-> out]

\* update, as it would be without @base.before_finalized
Hash_update_unguarded(o, data) ==
  /\ hash.n < HashCalls
  /\ o \in 1..Len(hash.objs)
  /\ hash' = [hash EXCEPT
       !.hashers[hash.objs[o]._hasher].data = @ \o data,
       !.n = @ + 1,
       !.last = HashCalled("update", o, "ok", <<>>)]
  /\ UNCHANGED nohash

\* @base.before_finalized def update(self, data):
\*     self._hasher.update(data)
Hash_update(o, data) ==
  /\ hash.n < HashCalls
  /\ o \in 1..Len(hash.objs)
  /\ hash' = IF hash.objs[o].final
       THEN [hash EXCEPT !.n = @ + 1,
               !.last = HashCalled("update", o, "AlreadyFinalized", <<>>)]
       ELSE [hash EXCEPT
               !.hashers[hash.objs[o]._hasher].data = @ \o data,
               !.n = @ + 1,
               !.last = HashCalled("update", o, "ok", <<>>)]
  /\ UNCHANGED nohash

\* copy, as it would be with hashobj._hasher = self._hasher
Hash_copy_alias(o) ==
  /\ hash.n < HashCalls
  /\ o \in 1..Len(hash.objs)
  /\ Len(hash.objs) < MaxObjs
  /\ hash' = IF hash.objs[o].final
       THEN [hash EXCEPT !.n = @ + 1,
               !.last = HashCalled("copy", o, "AlreadyFinalized", <<>>)]
       ELSE IF ~hash.hashers[hash.objs[o]._hasher].canCopy
       THEN [hash EXCEPT !.n = @ + 1,
               !.last = HashCalled("copy", o, "AttributeError", <<>>)]
       ELSE [hash EXCEPT
               !.objs = Append(@, [name |-> hash.objs[o].name,
                                   _digest_size |-> Hash_digest_size(o),
                                   _hasher |-> hash.objs[o]._hasher,
                                   final |-> FALSE, out |-> <<>>,
                                   prev |-> <<>>]),
               !.n = @ + 1,
               !.last = HashCalled("copy", o, "ok", <<>>)]
  /\ UNCHANGED nohash

\* @base.before_finalized def copy(self):
\*     hashobj = Hash(self.name, digest_size=self.digest_size)
\*     try: hashobj._hasher = self._hasher.copy()
\*     except AttributeError: raise AttributeError(...)
\*     return hashobj
\* The primitive Hash() builds for hashobj is dropped at the assignment, or
\* with hashobj when copy() raises.
Hash_copy(o) ==
  /\ hash.n < HashCalls
  /\ o \in 1..Len(hash.objs)
  /\ Len(hash.objs) < MaxObjs
  /\ hash' = IF hash.objs[o].final
       THEN [hash EXCEPT !.n = @ + 1,
               !.last = HashCalled("copy", o, "AlreadyFinalized", <<>>)]
       ELSE IF ~hash.hashers[hash.objs[o]._hasher].canCopy
       THEN [hash EXCEPT !.n = @ + 1,
               !.last = HashCalled("copy", o, "AttributeError", <<>>)]
       ELSE [hash EXCEPT
               !.hashers = Append(@, hash.hashers[hash.objs[o]._hasher]),
               !.objs = Append(@, [name |-> hash.objs[o].name,
                                   _digest_size |-> Hash_digest_size(o),
                                   _hasher |-> Len(hash.hashers) + 1,
                                   final |-> FALSE, out |-> <<>>,
                                   prev |-> <<>>]),
               !.n = @ + 1,
               !.last = HashCalled("copy", o, "ok", <<>>)]
  /\ UNCHANGED nohash

\* @base.finalizer(allow=True) def digest(self):
\*     if self._name in xofs:
\*         return self._hasher.read(self._digest_size)
\*     return self._hasher.digest()
Hash_digest(o) ==
  /\ hash.n < HashCalls
  /\ o \in 1..Len(hash.objs)
  /\ LET h   == hash.hashers[hash.objs[o]._hasher]
         out == IF hash.objs[o].name \in xofs
                  THEN PrimRead(h, hash.objs[o]._digest_size)
                  ELSE PrimDigest(h)
     IN  hash' = [hash EXCEPT
           !.hashers[hash.objs[o]._hasher].squeezed =
              IF hash.objs[o].name \in xofs
                THEN @ + hash.objs[o]._digest_size ELSE @,
           !.objs[o].final = TRUE,
           !.objs[o].out = <<out>>,
           !.objs[o].prev = hash.objs[o].out,
           !.n = @ + 1,
           !.last = HashCalled("digest", o, "ok", out)]
  /\ UNCHANGED nohash

NextHash ==
  \/ \E o \in 1..MaxObjs, data \in HashData : Hash_update(o, data)
  \/ \E o \in 1..MaxObjs : Hash_digest(o)
  \/ \E o \in 1..MaxObjs : Hash_copy(o)

SpecHash == InitHash /\ [][NextHash]_vars

\* The step is a call of `op` on the Hash object o.
HashStep(op, o) ==
  /\ hash'.n = hash.n + 1
  /\ hash'.last.op = op
  /\ hash'.last.on = o

C25_DigestRepeats ==
  \A o \in 1..Len(hash.objs) :
    hash.objs[o].prev # <<>> => hash.objs[o].out = hash.objs[o].prev

\* digest_size of object o of the Hash state hs.
DigestSizeIn(hs, o) ==
  IF hs.hashers[hs.objs[o]._hasher].digest_size # 0
    THEN hs.hashers[hs.objs[o]._hasher].digest_size
    ELSE hs.objs[o]._digest_size

\* The step is a copy() on o that hands back a new object: one more
\* object, of o's name and digest size, holding a primitive no other
\* object holds that absorbed what o's primitive absorbed.
CopyMade(o) ==
  /\ hash'.last.res = "ok"
  /\ Len(hash'.objs) = Len(hash.objs) + 1
  /\ \A p \in 1..Len(hash.objs) : hash'.objs[p] = hash.objs[p]
  /\ LET c == Len(hash'.objs)
     IN  /\ hash'.objs[c].name = hash.objs[o].name
         /\ DigestSizeIn(hash', c) = Hash_digest_size(o)
         /\ ~hash'.objs[c].final
         /\ \A p \in 1..Len(hash.objs) :
              hash'.objs[c]._hasher # hash.objs[p]._hasher
         /\ hash'.hashers[hash'.objs[c]._hasher]
              = hash.hashers[hash.objs[o]._hasher]

\* The step is a copy() on o that raises `err` and makes no object.
CopyRefused(o, err) ==
  /\ hash'.last.res = err
  /\ hash'.objs = hash.objs
  /\ hash'.hashers = hash.hashers

\* An update on o leaves the primitive of every other object as it was.
UpdateIsLocal(o) ==
  HashStep("update", o) =>
    \A p \in 1..Len(hash.objs) :
      p # o => hash'.hashers[hash.objs[p]._hasher]
                 = hash.hashers[hash.objs[p]._hasher]

Keys == {"k1", "k2"}

Providers == {"cryptodome", "cryptography"}

\* Message hash objects: who made them, the hash name, the message.
MsgHashes ==
  [provider : Providers, name : HashAlgos, msg : {<<>>, <<1>>}]

\* The provider's signature of a digest under a key.
Sign(key, name, msg) == <<"sig", key, name, msg>>

Signatures ==
  {Sign(k, n, m) : k \in Keys, n \in HashAlgos, m \in {<<>>, <<1>>}}

\* The provider's encryption of a plaintext for a key.
AsymEncrypt(key, data) == <<"ct", key, data>>

Plaintexts == {<<1>>, <<2>>}

Ciphertexts == {AsymEncrypt(k, d) : k \in Keys, d \in Plaintexts}

\* The contexts the key classes hand out: cryptodome_ RSAPrivateKey
\* .decryptor and .signer, RSAPublicKey.encryptor and .verifier;
\* cryptography_ RSAPrivateKey.signer, RSAPublicKey.verifier,
\* ECCPrivateKey.signer, ECCPublicKey.verifier.
Contexts ==
  {[cls |-> c, is_private |-> p, key |-> "k1"] :
     c \in {"_EncDecContext", "_SigVerContext"}, p \in BOOLEAN}
  \cup {[cls |-> c, is_private |-> TRUE, key |-> "k1"] :
          c \in {"RSASignerCtx", "ECCSignerCtx"}}
  \cup {[cls |-> c, is_private |-> FALSE, key |-> "k1"] :
          c \in {"RSAVerifierCtx", "ECCVerifierCtx"}}

InitAsym ==
  /\ kind = "none"
  /\ encrypting = FALSE
  /\ primStrict = FALSE
  /\ stage = "asym"
  /\ wire = NoWire
  /\ drv = NoDrive
  /\ hash = NoHash
  /\ kdf = NoKdf
  /\ Blank
  /\ \E c \in Contexts : asym = [NoAsym EXCEPT !.ctx = c]

\* What the asymmetric contexts leave alone.
noasym == <<kind, encrypting, primStrict, hash, kdf, stage, wire, drv,
            update_func, updated, cipher_ad, cipher_data, n_crpup, n_adup,
            n_verify, n_digest, n_update, last, ncalls, fin_ok, hmac>>

\* A call ends without the provider having been invoked.
Refused(op, res, same) ==
  /\ asym' = [asym EXCEPT !.n = @ + 1,
        !.last = [op |-> op, res |-> res, called |-> FALSE,
                  report |-> "none", same |-> same, out |-> <<>>]]
  /\ UNCHANGED noasym

\* A call ends after the provider was invoked.
Forwarded(op, res, report, same, out) ==
  /\ asym' = [asym EXCEPT !.n = @ + 1, !.used = @ + 1,
        !.last = [op |-> op, res |-> res, called |-> TRUE,
                  report |-> report, same |-> same, out |-> out]]
  /\ UNCHANGED noasym

\* The provider's verify of `signature` over the digest of msghash.
Report(msghash, signature) ==
  IF signature = Sign(asym.ctx.key, msghash.name, msghash.msg)
    THEN "match" ELSE "mismatch"

\* cryptodome_ _EncDecContext.encrypt:
\*     return self._ctx.encrypt(data)
Cryptodome_EncDecContext_encrypt(data) ==
  /\ asym.n < MaxCalls
  /\ asym.ctx.cls = "_EncDecContext"
  /\ Forwarded("encrypt", "ok", "none", TRUE,
               AsymEncrypt(asym.ctx.key, data))

\* decrypt, as it would be without the is_private test
Cryptodome_EncDecContext_decrypt_any(data) ==
  /\ asym.n < MaxCalls
  /\ asym.ctx.cls = "_EncDecContext"
  /\ IF \E d \in Plaintexts : data = AsymEncrypt(asym.ctx.key, d)
       THEN Forwarded("decrypt", "ok", "none", TRUE, data[3])
       ELSE Forwarded("decrypt", "DecryptionError", "none", TRUE, <<>>)

\* cryptodome_ _EncDecContext.decrypt:
\*     if not self._is_private: raise TypeError(...)
\*     try: return self._ctx.decrypt(data)
\*     except ValueError as e: raise exc.DecryptionError from e
Cryptodome_EncDecContext_decrypt(data) ==
  /\ asym.n < MaxCalls
  /\ asym.ctx.cls = "_EncDecContext"
  /\ IF ~asym.ctx.is_private
       THEN Refused("decrypt", "TypeError", TRUE)
       ELSE IF \E d \in Plaintexts : data = AsymEncrypt(asym.ctx.key, d)
       THEN Forwarded("decrypt", "ok", "none", TRUE, data[3])
       ELSE Forwarded("decrypt", "DecryptionError", "none", TRUE, <<>>)

\* cryptodome_ _SigVerContext.sign:
\*     if not self._is_private: raise TypeError(...)
\*     return self._ctx.sign(msghash)
Cryptodome_SigVerContext_sign(msghash) ==
  /\ asym.n < MaxCalls
  /\ asym.ctx.cls = "_SigVerContext"
  /\ IF ~asym.ctx.is_private
       THEN Refused("sign", "TypeError", msghash.provider = "cryptodome")
       ELSE Forwarded("sign", "ok", "none", msghash.provider = "cryptodome",
                      Sign(asym.ctx.key, msghash.name, msghash.msg))

\* verify, as it would be raising when the provider's verify is true
Cryptodome_SigVerContext_verify_flipped(msghash, signature) ==
  /\ asym.n < MaxCalls
  /\ asym.ctx.cls = "_SigVerContext"
  /\ Forwarded("verify",
               IF Report(msghash, signature) = "match"
                 THEN "SignatureError" ELSE "ok",
               Report(msghash, signature),
               msghash.provider = "cryptodome", <<>>)

\* cryptodome_ _SigVerContext.verify:
\*     if not self._ctx.verify(msghash, signature):
\*         raise exc.SignatureError
Cryptodome_SigVerContext_verify(msghash, signature) ==
  /\ asym.n < MaxCalls
  /\ asym.ctx.cls = "_SigVerContext"
  /\ Forwarded("verify",
               IF Report(msghash, signature) = "mismatch"
                 THEN "SignatureError" ELSE "ok",
               Report(msghash, signature),
               msghash.provider = "cryptodome", <<>>)

\* cryptography_ RSASignerCtx.sign: the algorithm comes from msghash's own
\* primitive when msghash is this backend's Hash, and from a Hash of this
\* backend made with msghash's name and digest size when it is not; then
\*     return self._sign_or_verify(msghash.digest(),
\*                                 algorithm=utils.Prehashed(hashalgo))
RSASignerCtx_sign(msghash) ==
  /\ asym.n < MaxCalls
  /\ asym.ctx.cls = "RSASignerCtx"
  /\ Forwarded("sign", "ok", "none", msghash.provider = "cryptography",
               Sign(asym.ctx.key, msghash.name, msghash.msg))

\* cryptography_ RSAVerifierCtx.verify: the algorithm as in sign, then
\*     try: return self._sign_or_verify(signature, msghash.digest(), ...)
\*     except bkx.InvalidSignature as e: raise exc.SignatureError from e
RSAVerifierCtx_verify(msghash, signature) ==
  /\ asym.n < MaxCalls
  /\ asym.ctx.cls = "RSAVerifierCtx"
  /\ Forwarded("verify",
               IF Report(msghash, signature) = "mismatch"
                 THEN "SignatureError" ELSE "ok",
               Report(msghash, signature),
               msghash.provider = "cryptography", <<>>)

\* cryptography_ ECCSignerCtx.sign:
\*     if not isinstance(msghash, Hash): raise TypeError(...)
\*     return self._sign(msghash.digest(), self._algo(...))
ECCSignerCtx_sign(msghash) ==
  /\ asym.n < MaxCalls
  /\ asym.ctx.cls = "ECCSignerCtx"
  /\ IF msghash.provider # "cryptography"
       THEN Refused("sign", "TypeError", FALSE)
       ELSE Forwarded("sign", "ok", "none", TRUE,
                      Sign(asym.ctx.key, msghash.name, msghash.msg))

\* cryptography_ ECCVerifierCtx.verify:
\*     if not isinstance(msghash, Hash): raise TypeError(...)
\*     try: return self._verify(signature, msghash.digest(), ...)
\*     except bkx.InvalidSignature as e: raise exc.SignatureError from e
ECCVerifierCtx_verify(msghash, signature) ==
  /\ asym.n < MaxCalls
  /\ asym.ctx.cls = "ECCVerifierCtx"
  /\ IF msghash.provider # "cryptography"
       THEN Refused("verify", "TypeError", FALSE)
       ELSE Forwarded("verify",
                      IF Report(msghash, signature) = "mismatch"
                        THEN "SignatureError" ELSE "ok",
                      Report(msghash, signature), TRUE, <<>>)

NextAsym ==
  \/ \E d \in Plaintexts : Cryptodome_EncDecContext_encrypt(d)
  \/ \E d \in Ciphertexts : Cryptodome_EncDecContext_decrypt(d)
  \/ \E h \in MsgHashes : Cryptodome_SigVerContext_sign(h)
  \/ \E h \in MsgHashes, g \in Signatures :
       Cryptodome_SigVerContext_verify(h, g)
  \/ \E h \in MsgHashes : RSASignerCtx_sign(h)
  \/ \E h \in MsgHashes, g \in Signatures : RSAVerifierCtx_verify(h, g)
  \/ \E h \in MsgHashes : ECCSignerCtx_sign(h)
  \/ \E h \in MsgHashes, g \in Signatures : ECCVerifierCtx_verify(h, g)

SpecAsym == InitAsym /\ [][NextAsym]_vars

\* The contexts of cryptodome_/RSA.py.
CryptodomeCtx == asym.ctx.cls \in {"_EncDecContext", "_SigVerContext"}

\* C27: on a cryptodome RSA context made by a public key (encryptor,
\* verifier), sign and decrypt raise TypeError and the provider's object is
\* not invoked.
C27_PublicCannotSignOrDecrypt ==
  [][(CryptodomeCtx /\ ~asym.ctx.is_private /\ asym'.n = asym.n + 1
        /\ asym'.last.op \in {"sign", "decrypt"})
       => /\ asym'.last.res = "TypeError"
          /\ ~asym'.last.called
          /\ asym'.used = asym.used]_vars

C27_Witness ==
  /\ asym.ctx.cls = "_EncDecContext"
  /\ ~asym.ctx.is_private
  /\ asym.last.op = "decrypt"
  /\ asym.last.res = "TypeError"
  /\ asym.used = 1
  /\ asym.n = 3

\* C28: on a cryptodome RSA context made by a private key (decryptor,
\* signer), encrypt and verify raise a capability-mismatch error and the
\* provider's object is not invoked. (Fails: both are forwarded.)
C28_PrivateCannotEncryptOrVerify ==
  (CryptodomeCtx /\ asym.ctx.is_private
     /\ asym.last.op \in {"encrypt", "verify"})
    => /\ asym.last.res = "TypeError"
       /\ ~asym.last.called

\* C29: verify of the cryptodome RSA, cryptography RSA and cryptography
\* ECC contexts raises SignatureError exactly when the provider was asked
\* and reported a mismatch, and returns exactly when it reported a match.
C29_VerifyFollowsProvider ==
  (asym.ctx.cls \in {"_SigVerContext", "RSAVerifierCtx", "ECCVerifierCtx"}
     /\ asym.last.op = "verify")
    => /\ asym.last.res = "SignatureError"
            <=> (asym.last.called /\ asym.last.report = "mismatch")
       /\ asym.last.res = "ok"
            <=> (asym.last.called /\ asym.last.report = "match")

C29_Witness ==
  /\ asym.ctx.cls = "_SigVerContext"
  /\ asym.last.op = "verify"
  /\ asym.last.res = "SignatureError"
  /\ asym.last.report = "mismatch"
  /\ asym.used = 3

\* C30: sign and verify of the cryptography ECC and RSA contexts raise
\* TypeError, without the key being used, for a message hash that another
\* backend made. (Fails for RSA: the hash is rebuilt and the key is used.)
C30_ForeignHashRejected ==
  (asym.ctx.cls \in {"RSASignerCtx", "RSAVerifierCtx", "ECCSignerCtx",
                     "ECCVerifierCtx"}
     /\ asym.last.op \in {"sign", "verify"}
     /\ ~asym.last.same)
    => /\ asym.last.res = "TypeError"
       /\ ~asym.last.called

\* ========================================================= PSS salt length
\* A PSS padding record is turned into a signer or verifier context. Here
\* asym holds the key (the byte length of its modulus), the record and the
\* context built from it:
\*   padding.salt_len: <<>> for None, <<n>> for n
\*   padding.hlen:     digest size of the hash of the record's mgf
\*   salt:             [max |-> TRUE] for the provider's MAX_LENGTH,
\*                     [max |-> FALSE, len |-> n] for a number
\*   used:             the salt length of the provider's last sign/verify,
\*                     <<>> before

\* Byte lengths of the moduli.
KeyBytes == {5, 6, 7}

\* salt_len of the PSS records.
SaltLens == {<<>>, <<0>>, <<1>>, <<2>>}

\* The longest salt a key of k bytes takes with a digest of h bytes.
MaxSalt(k, h) == k - h - 2

InitPss ==
  /\ kind = "none"
  /\ encrypting = FALSE
  /\ primStrict = FALSE
  /\ stage = "pss"
  /\ wire = NoWire
  /\ drv = NoDrive
  /\ hash = NoHash
  /\ kdf = NoKdf
  /\ Blank
  /\ \E lib \in Providers, priv \in BOOLEAN, k \in KeyBytes,
        sl \in SaltLens, h \in HashAlgos :
       asym = [pc |-> "key", lib |-> lib, is_private |-> priv,
               key_bytes |-> k,
               padding |-> [salt_len |-> sl, hlen |-> DigestSize(h)],
               salt |-> [max |-> FALSE, len |-> 0], used |-> <<>>]

\* cryptography_ _SigVerContext.__init__, as it would be with
\* `padding.salt_len or pad.MAX_LENGTH`
Cryptography_SigVerContext_init_truthy ==
  /\ asym.pc = "key"
  /\ asym.lib = "cryptography"
  /\ asym' = [asym EXCEPT !.pc = "ctx",
        !.salt = IF asym.padding.salt_len \notin {<<>>, <<0>>}
                   THEN [max |-> FALSE, len |-> asym.padding.salt_len[1]]
                   ELSE [max |-> TRUE, len |-> 0]]
  /\ UNCHANGED noasym

\* cryptography_ RSAPrivateKey.signer, RSAPublicKey.verifier:
\* _SigVerContext.__init__:
\*     salt_len = (padding.salt_len if padding.salt_len is not None
\*                 else pad.MAX_LENGTH)
\*     self._sign_or_verify = partial(sig_ver, padding=pad(mgf, salt_len))
Cryptography_SigVerContext_init ==
  /\ asym.pc = "key"
  /\ asym.lib = "cryptography"
  /\ asym' = [asym EXCEPT !.pc = "ctx",
        !.salt = IF asym.padding.salt_len # <<>>
                   THEN [max |-> FALSE, len |-> asym.padding.salt_len[1]]
                   ELSE [max |-> TRUE, len |-> 0]]
  /\ UNCHANGED noasym

\* get_padding(padding)(self._key, padding) of the cryptodome backend: the
\* provider's PSS object, with the salt length of the record, or the
\* longest the key takes when the record has None.
get_padding(key_bytes, padding) ==
  IF padding.salt_len # <<>>
    THEN [max |-> FALSE, len |-> padding.salt_len[1]]
    ELSE [max |-> FALSE, len |-> MaxSalt(key_bytes, padding.hlen)]

\* cryptodome_ RSAPrivateKey.signer, RSAPublicKey.verifier:
\*     return _SigVerContext(is_private,
\*                           get_padding(padding)(self._key, padding))
Cryptodome_SigVerContext_init ==
  /\ asym.pc = "key"
  /\ asym.lib = "cryptodome"
  /\ asym' = [asym EXCEPT !.pc = "ctx",
        !.salt = get_padding(asym.key_bytes, asym.padding)]
  /\ UNCHANGED noasym

\* sign or verify: the provider takes the salt length of the context's
\* padding object, MAX_LENGTH standing for the longest the key takes.
Pss_sign_or_verify ==
  /\ asym.pc = "ctx"
  /\ asym' = [asym EXCEPT !.pc = "used",
        !.used = IF asym.salt.max
                   THEN <<MaxSalt(asym.key_bytes, asym.padding.hlen)>>
                   ELSE <<asym.salt.len>>]
  /\ UNCHANGED noasym

NextPss ==
  \/ Cryptography_SigVerContext_init
  \/ Cryptodome_SigVerContext_init
  \/ Pss_sign_or_verify

SpecPss == InitPss /\ [][NextPss]_vars

\* C31: a context built from a PSS record without salt_len signs and
\* verifies with the longest salt the key takes; one built from a record
\* with salt_len n does so with n, 0 included.
C31_PssSaltLength ==
  (stage = "pss" /\ asym.pc = "used") =>
    asym.used = IF asym.padding.salt_len = <<>>
                  THEN <<MaxSalt(asym.key_bytes, asym.padding.hlen)>>
                  ELSE asym.padding.salt_len

C31_Witness ==
  /\ stage = "pss"
  /\ asym.pc = "used"
  /\ asym.lib = "cryptography"
  /\ asym.padding.salt_len = <<>>
  /\ asym.salt.max
  /\ asym.used = <<3>>

\* ================================================ the templates, continued

\* is_encrypting(): return self._encrypting
is_encrypting == encrypting

\* C32: on the two templates, whatever calls are made and however they
\* end, is_encrypting() returns what it returned after construction.
C32_DirectionFixed ==
  [][(kind \in Templates) => (is_encrypting' = is_encrypting)]_vars

C32_Witness ==
  /\ stage = "one"
  /\ kind = "NonAEADCipherTemplate"
  /\ ~is_encrypting
  /\ fin_ok
  /\ n_crpup > 0
  /\ last.op = "update_into"
  /\ last.res = "AlreadyFinalized"

\* The fields of a template context and what its primitive was asked.
fields == <<update_func, updated, encrypting, primitive>>

\* C33: on a decrypting AEADCipherTemplate context that is not finalized,
\* finalize without a tag raises ValueError and changes neither a field of
\* the context nor the primitive.
C33_MissingTagLeavesActive ==
  [][(kind = "AEADCipherTemplate" /\ ~encrypting /\ update_func # "None"
        /\ IsCall({"finalize"}) /\ last'.tag = NoTag)
       => /\ last'.res = "ValueError"
          /\ UNCHANGED fields
          /\ UNCHANGED fin_ok]_vars

\* The failed call was made after an update; the context is still active.
C33_Witness ==
  /\ stage = "one"
  /\ kind = "AEADCipherTemplate"
  /\ ~encrypting
  /\ last.op = "finalize"
  /\ last.res = "ValueError"
  /\ update_func = "bound"
  /\ n_crpup > 0
  /\ n_verify = 0

\* C34: on a decrypting AEADCipherTemplate context, a finalize that raises
\* DecryptionError leaves the context finalized; verify is called at most
\* once on a context, and once it was called every finalize, update,
\* update_into and authenticate raises AlreadyFinalized.
C34_OneTagPerContext ==
  [][(kind = "AEADCipherTemplate")
       => /\ n_verify' <= 1
          /\ (IsCall({"finalize"}) /\ last'.res = "DecryptionError")
               => update_func' = "None"
          /\ (n_verify > 0 /\ IsCall({"finalize", "update", "update_into",
                                      "authenticate"}))
               => (last'.res = "AlreadyFinalized" /\ UNCHANGED primitive)]_vars

\* A second tag was tried after a wrong one.
C34_Witness ==
  /\ stage = "one"
  /\ kind = "AEADCipherTemplate"
  /\ ~encrypting
  /\ ~fin_ok
  /\ n_verify = 1
  /\ last.op = "finalize"
  /\ last.tag = PrimTag(cipher_ad, cipher_data)
  /\ last.res = "AlreadyFinalized"

\* C35: on AEADCipherTemplate, an update or update_into that raises
\* changes no field of the context. (Fails: _updated is set before the
\* test that raises.)
C35_FailedUpdateChangesNothing ==
  [][(kind = "AEADCipherTemplate" /\ IsCall({"update", "update_into"})
        /\ last'.res # "ok")
       => (UNCHANGED fields)]_vars

\* ====================================================== the length counter
\* update and update_into of the HMAC composition, update_into with an out
\* buffer of its own length.

\* How much longer than data the out buffer of update_into is.
Slack == {0, 1}

\* update_into(data, out) is called with an out buffer of Len(data) + n
\* bytes, another buffer than data.
CipherWrapper_update_into_sized(data, n) ==
  /\ pc = "idle"
  /\ ncalls < CallLimit
  /\ frame' = [NoFrame EXCEPT !.data = data,
                              !.out = [k \in 1..(Len(data) + n) |-> 0]]
  /\ in_cat' = in_cat \o data
  /\ n_update' = n_update + 1
  /\ pc' = IF encrypting THEN "L86" ELSE "L93"
  /\ UNCHANGED <<fixed, update_func, updated, cipher_ad, cipher_data,
                 n_crpup, n_adup, n_verify, n_digest, last, ncalls, fin_ok,
                 auth_data, len_ct, n_hashup, ret_cat>>

NextLen ==
  \/ \E data \in Chunks : CipherWrapper_update_call(data)
  \/ Enc_update_L59
  \/ Enc_update_L60
  \/ Enc_update_L61
  \/ Enc_update_L62
  \/ Enc_update_L63
  \/ Dec_update_L67
  \/ Dec_update_L68
  \/ Dec_update_L69
  \/ Dec_update_L70
  \/ \E data \in Chunks, n \in Slack : CipherWrapper_update_into_sized(data, n)
  \/ Enc_update_into_L86
  \/ Enc_update_into_L87
  \/ Enc_update_into_L88
  \/ Enc_update_into_L89
  \/ Dec_update_into_L93
  \/ Dec_update_into_L94
  \/ Dec_update_into_L95
  \/ Dec_update_into_L96

SpecLen == InitHmac /\ [][NextLen]_vars

\* C36: between calls, _len_ct is the number of bytes the MAC was fed by
\* update and update_into, and that is the total length of the data those
\* calls were given, in both directions and whatever the length of the out
\* buffer. (Fails when encrypting into a longer out buffer: the call ends
\* with the ValueError of the transform and nothing is counted.)
C36_LenCtCountsPayload ==
  pc = "idle" =>
    /\ len_ct = Len(auth_data)
    /\ len_ct = Len(in_cat)

\* a is the beginning of b.
IsPrefix(a, b) == Len(a) <= Len(b) /\ a = SubSeq(b, 1, Len(a))

\* C37: when the file driver calls update_into of the HMAC composition with
\* one buffer as data and out, the MAC is fed the ciphertext in both
\* directions: when encrypting, what the transform left in the buffer;
\* when decrypting, what the buffer held before the transform; between
\* calls the MAC has been fed exactly the ciphertext side of the stream.
C37_InPlaceMacOverCiphertext ==
  (stage = "drive" /\ kind = "HMACCipherWrapper") =>
    /\ pc # "idle" => frame.inplace
    /\ IF encrypting THEN IsPrefix(auth_data, cipher_data)
                     ELSE IsPrefix(cipher_data, auth_data)
    /\ (~encrypting /\ pc \in {"L93", "L94"}) => frame.data = Buf
    /\ (encrypting /\ pc \in {"L88", "L89"}) =>
          /\ frame.data = frame.out
          /\ frame.out = SubSeq(cipher_data,
                                Len(cipher_data) - Len(frame.out) + 1,
                                Len(cipher_data))
    /\ pc = "idle" => auth_data = cipher_data

\* Decrypting, second buffer: the MAC was fed, the transform has not run.
C37_Witness ==
  /\ stage = "drive"
  /\ kind = "HMACCipherWrapper"
  /\ ~encrypting
  /\ pc = "L96"
  /\ frame.inplace
  /\ n_hashup = 2
  /\ Len(auth_data) > Len(cipher_data)
  /\ Decrypt(frame.data, Len(cipher_data)) # frame.data

\* ======================================== update_into over files that fail
\* The source's readinto or the sink's write raises OSError; update_into
\* has no handler, so the exception leaves it at that statement.

\* for i in reads: readinto raises
File_update_into_L189_raises ==
  /\ drv.pc = "L189"
  /\ pc = "idle"
  /\ drv' = [drv EXCEPT !.pc = "raised", !.exc = "OSError"]
  /\ UNCHANGED <<context, stage, wire>>

\* write(buf) raises, as it would be with the loop in a try block whose
\* finally clause finalizes
File_update_into_L193_raises_finally ==
  /\ drv.pc = "L193"
  /\ pc = "idle"
  /\ drv' = [drv EXCEPT !.pc = "L194", !.exc = "OSError"]
  /\ UNCHANGED <<context, stage, wire>>

\* write(buf) raises
File_update_into_L193_raises ==
  /\ drv.pc = "L193"
  /\ pc = "idle"
  /\ drv' = [drv EXCEPT !.pc = "raised", !.exc = "OSError"]
  /\ UNCHANGED <<context, stage, wire>>

NextDriveIO ==
  \/ NextDrive
  \/ File_update_into_L189_raises
  \/ File_update_into_L193_raises

SpecDriveIO == InitDrive /\ [][NextDriveIO]_vars

\* C38: when a read of the source or a write to the sink raises inside
\* update_into, the exception comes out of update_into, finalize is not
\* called, no tag is verified or made, and the context is not finalized.
C38_IoErrorLeavesActive ==
  drv.exc = "OSError" =>
    /\ drv.pc = "raised"
    /\ last.op # "finalize"
    /\ n_verify = 0
    /\ n_digest = 0
    /\ ~fin_ok
    /\ update_func = "bound"

\* The second write failed.
C38_Witness ==
  /\ drv.pc = "raised"
  /\ drv.exc = "OSError"
  /\ kind = "HMACCipherWrapper"
  /\ ~encrypting
  /\ drv.nwrite = 1
  /\ n_update = 2
  /\ update_func = "bound"

\* ============================================ a file cipher after the drive
\* update_into has returned; the owner calls update or update_into again.
\* drv.calls counts these calls, drv.ret is how the last one went:
\* "AlreadyFinalized", or "ran" when the body ran, which reads the source.

\* @base.before_finalized: the context was marked finalized. The HMAC
\* composition's finalize marks it; AEADCipherWrapper.finalize marks
\* nothing.
before_finalized_raises == update_func = "None"

\* update(blocksize) after the drive: the source is at its end, read
\* returns nothing and update returns None
File_update_after ==
  /\ drv.pc = "done"
  /\ drv.calls < MaxCalls
  /\ drv' = [drv EXCEPT !.calls = @ + 1,
                        !.ret = IF before_finalized_raises
                                  THEN "AlreadyFinalized" ELSE "ran"]
  /\ UNCHANGED <<context, stage, wire>>

\* update_into(file, tag) after the drive: the first read returns nothing
\* and finalize is next
File_update_into_after ==
  /\ drv.pc = "done"
  /\ drv.calls < MaxCalls
  /\ drv' = IF before_finalized_raises
              THEN [drv EXCEPT !.calls = @ + 1, !.ret = "AlreadyFinalized"]
              ELSE [drv EXCEPT !.calls = @ + 1, !.ret = "ran",
                               !.pc = "A194", !.i = ncalls]
  /\ UNCHANGED <<context, stage, wire>>

\* self.finalize(tag), in the call after the drive
File_update_into_after_L194 ==
  /\ drv.pc = "A194"
  /\ ncalls = drv.i
  /\ AEADCipherWrapper_finalize(drv.tag)

\* the call after the drive returns, or what finalize raised leaves it
File_update_into_after_return ==
  /\ drv.pc = "A194"
  /\ ncalls = drv.i + 1
  /\ drv' = [drv EXCEPT !.pc = "done", !.i = 0]
  /\ UNCHANGED <<context, stage, wire>>

NextFileAfter ==
  \/ NextDrive
  \/ File_update_after
  \/ File_update_into_after
  \/ File_update_into_after_L194
  \/ File_update_into_after_return

SpecFileAfter == InitDrive /\ [][NextFileAfter]_vars

\* C39: once update_into of a file cipher has returned, every update and
\* update_into call raises AlreadyFinalized and does not get to read the
\* source. (Fails for a file cipher over AEADCipherWrapper, whose finalize
\* marks nothing.)
C39_InertAfterDrive ==
  drv.calls > 0 => (drv.pc = "done" /\ drv.ret = "AlreadyFinalized")

\* ================================================== RSAPrivateKey.serialize
\* cryptodome_ RSAPrivateKey.serialize(encoding, format, passphrase,
\* protection), statement by statement. Here asym holds the arguments, the
\* local `protection`, the exception raised and what export_key was given.
\* "None" stands for None.

\* encodings of cryptodome_/_serialization.
encodings == {"PEM", "DER", "OpenSSH"}

\* formats of cryptodome_/_serialization.
formats == {"PKCS1", "PKCS8"}

\* protection_schemes of cryptodome_/_serialization.
protection_schemes ==
  {"PBKDF2WithHMAC-SHA1AndAES256-CBC", "scryptAndAES128-CBC"}

\* A \ B and B \ A together: Python's A ^ B.
SymDiff(A, B) == (A \ B) \cup (B \ A)

InitSerialize ==
  /\ kind = "none"
  /\ encrypting = FALSE
  /\ primStrict = FALSE
  /\ stage = "ser"
  /\ wire = NoWire
  /\ drv = NoDrive
  /\ hash = NoHash
  /\ kdf = NoKdf
  /\ Blank
  /\ \E en \in encodings \cup {"XML"}, f \in formats \cup {"PKCS12"},
        pw \in {"None", "empty", "bytes"},
        pr \in protection_schemes \cup {"None", "ROT13"} :
       asym = [pc |-> "L127", encoding |-> en, format |-> f,
               passphrase |-> pw, protection |-> pr, exc |-> "",
               export |-> [pkcs |-> "", protection |-> ""]]

\* The statement raises e.
SerializeRaises(e) ==
  /\ asym' = [asym EXCEPT !.pc = "raised", !.exc = e]
  /\ UNCHANGED noasym

\* The statement is done; s is next.
SerializeGoes(s) ==
  /\ asym' = [asym EXCEPT !.pc = s]
  /\ UNCHANGED noasym

\* if encoding not in encodings.keys() ^ {"OpenSSH"}: raise ValueError
serialize_L127 ==
  /\ asym.pc = "L127"
  /\ IF asym.encoding \notin SymDiff(encodings, {"OpenSSH"})
       THEN SerializeRaises("ValueError")
       ELSE SerializeGoes("L130")

\* if protection is not None:
\*     if protection not in protection_schemes: raise ValueError
serialize_L130 ==
  /\ asym.pc = "L130"
  /\ IF asym.protection # "None" /\ asym.protection \notin protection_schemes
       THEN SerializeRaises("ValueError")
       ELSE SerializeGoes("L134")

\* if format == "PKCS1":
\*     if protection is not None: raise ValueError
\*     if encoding == "DER": raise ValueError
serialize_L134 ==
  /\ asym.pc = "L134"
  /\ IF asym.format = "PKCS1"
          /\ (asym.protection # "None" \/ asym.encoding = "DER")
       THEN SerializeRaises("ValueError")
       ELSE SerializeGoes("L140")

\* if passphrase is not None and protection is None:
\*     protection = "PBKDF2WithHMAC-SHA1AndAES256-CBC"
serialize_L140 ==
  /\ asym.pc = "L140"
  /\ asym' = [asym EXCEPT !.pc = "L144",
        !.protection = IF asym.passphrase # "None" /\ @ = "None"
                         THEN "PBKDF2WithHMAC-SHA1AndAES256-CBC" ELSE @]
  /\ UNCHANGED noasym

\* return self._key.export_key(format=encodings[encoding],
\*     pkcs=formats[format], passphrase=..., protection=protection)
serialize_L144 ==
  /\ asym.pc = "L144"
  /\ IF asym.format \notin formats
       THEN SerializeRaises("KeyError")
       ELSE /\ asym' = [asym EXCEPT !.pc = "exported",
                  !.export = [pkcs |-> asym.format,
                              protection |-> asym.protection]]
            /\ UNCHANGED noasym

NextSerialize ==
  \/ serialize_L127
  \/ serialize_L130
  \/ serialize_L134
  \/ serialize_L140
  \/ serialize_L144

SpecSerialize == InitSerialize /\ [][NextSerialize]_vars

\* C40: serialize hands export_key a protection scheme only with format
\* PKCS8, and then the one given, or PBKDF2WithHMAC-SHA1AndAES256-CBC when
\* there is a passphrase and none was given. (Fails: with format PKCS1, a
\* passphrase and no protection, export_key is given the default scheme.)
C40_ProtectionOnlyWithPkcs8 ==
  (stage = "ser" /\ asym.pc = "exported") =>
    /\ asym.export.pkcs = "PKCS1" => asym.export.protection = "None"
    /\ asym.export.protection # "None" =>
         /\ asym.export.pkcs = "PKCS8"
         /\ asym.export.protection \in protection_schemes
====
